---- MODULE Spec2Model ----
(***************************************************************************)
(* Model of the spaced-repetition scheduler, the mistake ledger and the    *)
(* pages that drive them in src/app.py.                                     *)
(*                                                                         *)
(* The application is a Streamlit script: every user interaction re-runs   *)
(* main(), which renders the page selected in the sidebar.  A button       *)
(* returns True only in the re-run triggered by its click, and only when   *)
(* the widget is rendered again in that re-run.  One action of the model   *)
(* is one such re-run: the page that is rendered and the button (if any)   *)
(* that was clicked.                                                        *)
(*                                                                         *)
(* Payload fields that the scheduler never reads (meaning, example,        *)
(* register, pos, correction, date, confidence, user_text, corrected_text) *)
(* are left out of the records.  Python list indices are 0-based, the      *)
(* sequences below are 1-based.                                             *)
(***************************************************************************)
EXTENDS Integers, Sequences, FiniteSets, TLC

VARIABLES
    nav,                    \* page chosen in the sidebar radio
    review_queue,           \* st.session_state.review_queue: term -> item
    review_step,            \* st.session_state.review_step
    grammar_review_queue,   \* st.session_state.grammar_review_queue: id -> item
    grammar_review_step,    \* st.session_state.grammar_review_step
    error_review_queue,     \* st.session_state.error_review_queue: tag -> list
    error_review_step,      \* st.session_state.error_review_step
    mistake_log,            \* st.session_state.mistake_log: pattern -> count
    mistake_notebook,       \* st.session_state.mistake_notebook: list of entries
    domain_exposure,        \* st.session_state.domain_exposure: the dictionary
                            \* as the list of its (domain, count) pairs in
                            \* insertion order
    vocab_items,            \* table vocab_items of the database (terms)
    mistakes,               \* table mistakes of the database (list of patterns)
    due_items,              \* vocabulary due list on screen (review buttons)
    due_grammar,            \* grammar due list on screen (review buttons)
    due_error,              \* error notebook: selected tag and due indices
    topic_screen,           \* topic engine: suggested mix and coverage shares
    raised,                 \* exception that ended the last re-run ("" if none)
    ev,                     \* history: what the last re-run did to the queues
    unseen,                 \* history: items created and not yet covered by a
                            \* due query of their queue
    calls,                  \* history: log_mistake calls of this session, per
                            \* pattern
    fn,                     \* a text function called on its own: its name,
                            \* its arguments and, once it has returned, its
                            \* result
    fed_at,                 \* history: for every item that has had feedback,
                            \* the step of its queue at its last feedback
                            \* and the streak that feedback left
    seen_due                \* history: the items that have been in a due
                            \* list since their last feedback (or since
                            \* their creation)

vars == <<nav, review_queue, review_step, grammar_review_queue,
          grammar_review_step, error_review_queue, error_review_step,
          mistake_log, mistake_notebook, domain_exposure, vocab_items,
          mistakes, due_items, due_grammar, due_error, topic_screen, raised,
          ev, unseen, calls, fn, fed_at, seen_due>>

vocabVars   == <<review_queue, domain_exposure, vocab_items>>
grammarVars == <<grammar_review_queue>>
ledgerVars  == <<error_review_queue, mistake_log, mistake_notebook, mistakes>>

----------------------------------------------------------------------------
(* Bounds of the exploration *)

\* A session is explored as long as its effort stays within MaxEffort: one
\* unit for every vocabulary or error due query (the grammar step never
\* exceeds the vocabulary step), five for every logged mistake and for every
\* recorded exposure (every queued term records one).
MaxEffort == 16

\* A session whose database may refuse a write, and the sessions after it,
\* are explored within MaxStorageEffort, measured in the same way; the write
\* of a re-run that is refused is one of its first MaxWrites writes.
MaxStorageEffort == 10
MaxWrites == 2

\* Direct calls of the feedback functions are explored up to a streak of
\* MaxCallStreak, with list indices from -MaxIndex - 1 to MaxIndex.
MaxCallStreak == 1
MaxIndex == 1

\* The text functions are called with lists of at most MaxConstraints
\* constraints and with texts of at most MaxWords words.
MaxConstraints == 2
MaxWords == 4

\* a question accepts at most MaxAnswers answers
MaxAnswers == 2

\* the items of the error notebook and the streak an item is passed up to
MaxNotebookItems == 3
MaxNotebookStreak == 2

----------------------------------------------------------------------------
(* Helpers *)

Range(s) == {s[i] : i \in 1..Len(s)}

Min(S) == CHOOSE x \in S : \A y \in S : x <= y

Pow2(n) == 2 ^ n

\* list.count(x)
Count(s, x) == Cardinality({i \in 1..Len(s) : s[i] = x})

----------------------------------------------------------------------------
(* Static tables of the program, cut down to a few entries *)

\* the first domain of VOCAB_DOMAINS and the terms of the first two entries
\* of its lexicon, in list order; these entries have an "example"
GrowthDomain == "Climate adaptation & resilience"
GrowthTerms == <<"mitigar", "blindar">>
GrowthLexicon == Range(GrowthTerms)

\* TOPIC_DIVERSITY_DOMAINS: the first two domain names, in list order
TOPIC_DIVERSITY_DOMAINS == <<"Healthcare", "Housing">>
TopicDomains == Range(TOPIC_DIVERSITY_DOMAINS)

\* the first term of the lexicon of a topic domain; the entries of these
\* lexicons have no "example"
TopicTerms(domain) ==
    CASE domain = "Healthcare" -> <<"diagnostico">>
      [] domain = "Housing" -> <<"arrendamiento">>

\* ERROR_TAGS.get(pattern, "general")
ERROR_TAGS(pattern) ==
    CASE pattern = "dependen en" -> "preposition"
      [] pattern = "tomar una decision en" -> "preposition"
      [] pattern = "la problema" -> "gender agreement"
      [] pattern = "verb precision" -> "verb choice"
      [] OTHER -> "general"

\* patterns of COMMON_MISTAKES, in list order
COMMON_MISTAKES == <<"dependen en", "tomar una decision en", "la problema">>

\* prompts of GRAMMAR_MICRODRILLS, in list order (first drill)
GRAMMAR_MICRODRILLS == <<"La reunion fue ___ y productiva.">>

\* every pattern that some handler passes to log_mistake
Patterns ==
    Range(COMMON_MISTAKES) \cup Range(GRAMMAR_MICRODRILLS)
        \cup {"verb precision", "ser listo"}

NoEvent == [fed |-> {}, queried |-> {}, created |-> {}, first |-> {},
            logged |-> <<>>, saved |-> <<>>, evaluated |-> "", text |-> <<>>,
            called |-> <<>>]

----------------------------------------------------------------------------
(* Texts typed by the user: sequences of characters *)

Chars_dependen_en == <<"d","e","p","e","n","d","e","n"," ","e","n">>
Chars_la_problema == <<"l","a"," ","p","r","o","b","l","e","m","a">>
Chars_tomar == <<"t","o","m","a","r"," ","u","n","a"," ","d","e","c","i","s",
                 "i","o'","n"," ","e","n">>
Chars_listo_ser == <<"l","i","s","t","o"," ","s","e","r">>

PatternChars(pattern) ==
    CASE pattern = "dependen en" -> Chars_dependen_en
      [] pattern = "tomar una decision en" -> Chars_tomar
      [] pattern = "la problema" -> Chars_la_problema

\* the texts the user may type: nothing; "Dependen en Dependen en";
\* "la problema dependen en"; "listo ser"
Texts == { <<>>,
           <<"D">> \o Tail(Chars_dependen_en) \o <<" ", "D">>
                \o Tail(Chars_dependen_en),
           Chars_la_problema \o <<" ">> \o Chars_dependen_en,
           Chars_listo_ser }

\* the capital letters and their lower-case forms
UpperCase == <<"A", "B", "C", "D", "E", "F", "G", "H", "I", "J", "K", "L", "M",
               "N", "O", "P", "Q", "R", "S", "T", "U", "V", "W", "X", "Y", "Z",
               "A'", "E'", "I'", "O'", "U'", "N~">>
LowerCase == <<"a", "b", "c", "d", "e", "f", "g", "h", "i", "j", "k", "l", "m",
               "n", "o", "p", "q", "r", "s", "t", "u", "v", "w", "x", "y", "z",
               "a'", "e'", "i'", "o'", "u'", "n~">>
LowerOf == [c \in Range(UpperCase) |->
               LowerCase[CHOOSE i \in 1..Len(UpperCase) : UpperCase[i] = c]]

\* str.lower(), one character
LowerChar(c) == IF c \in DOMAIN LowerOf THEN LowerOf[c] ELSE c

\* str.lower()
Lower(text) == [i \in 1..Len(text) |-> LowerChar(text[i])]

\* Python's  pattern in text  (substring test)
Contains(text, pat) ==
    \E i \in 0..(Len(text) - Len(pat)) :
        \A j \in 1..Len(pat) : text[i + j] = pat[j]

\* a matcher that reports a pattern only as long as the log does not have it
MatchedMistakes_once(text) ==
    SelectSeq(COMMON_MISTAKES,
              LAMBDA p : /\ Contains(Lower(text), PatternChars(p))
                         /\ p \notin DOMAIN mistake_log)

\* for mistake in COMMON_MISTAKES: if mistake["pattern"] in text.lower()
MatchedMistakes(text) ==
    SelectSeq(COMMON_MISTAKES, LAMBDA p : Contains(Lower(text), PatternChars(p)))

----------------------------------------------------------------------------
(* Scheduler functions; each takes the part of the session state it reads  *)
(* and returns the part it writes                                           *)

\* record_domain_exposure: the counter of the domain rises by 1; a domain
\* that is not a key of the dictionary yet is inserted at its end
record_domain_exposure(exposure, domain) ==
    IF \E i \in 1..Len(exposure) : exposure[i].domain = domain
    THEN [i \in 1..Len(exposure) |->
            IF exposure[i].domain = domain
            THEN [exposure[i] EXCEPT !.count = @ + 1] ELSE exposure[i]]
    ELSE Append(exposure, [domain |-> domain, count |-> 1])

\* the queue with the entry of add_review_items for a term
WithReviewItem(queue, item) ==
    [t \in DOMAIN queue \cup {item.term} |->
        IF t = item.term
        THEN [domain |-> item.domain, streak |-> 0, next_due |-> 0]
        ELSE queue[t]]

\* add_review_items without the test  item_id not in review_queue : a term
\* that is saved again gets a fresh entry
RECURSIVE add_review_items_overwrite(_, _, _)
add_review_items_overwrite(V, items, db_fail) ==
    IF items = <<>> THEN V
    ELSE LET item == Head(items)
             V1 == [V EXCEPT
                      !.review_queue = WithReviewItem(@, item),
                      !.domain_exposure =
                          IF item.domain # "" 
                          THEN record_domain_exposure(@, item.domain) ELSE @]
         IN IF ~item.example THEN [V EXCEPT !.raised = "KeyError"]
            ELSE IF db_fail = 1 THEN [V1 EXCEPT !.raised = "OperationalError"]
            ELSE add_review_items_overwrite(
                    [V1 EXCEPT !.vocab_items = @ \cup {item.term}],
                    Tail(items), db_fail - 1)

\* add_review_items.  An item is its term, its domain and whether it has the
\* key "example"; the queue entry is built before it is stored, so an item
\* without "example" raises KeyError with nothing written.  db_fail is the
\* number of the database write of this re-run that raises (0: none); the
\* exception of save_vocab_item is not caught, so it ends the loop.
RECURSIVE add_review_items(_, _, _)
add_review_items(V, items, db_fail) ==
    IF items = <<>> THEN V
    ELSE LET item == Head(items)
             V1 == [V EXCEPT
                      !.review_queue = WithReviewItem(@, item),
                      !.domain_exposure =
                          IF item.domain # ""
                          THEN record_domain_exposure(@, item.domain) ELSE @]
         IN IF item.term \in DOMAIN V.review_queue
            THEN add_review_items(V, Tail(items), db_fail)
            ELSE IF ~item.example THEN [V EXCEPT !.raised = "KeyError"]
            ELSE IF db_fail = 1 THEN [V1 EXCEPT !.raised = "OperationalError"]
            ELSE add_review_items(
                    [V1 EXCEPT !.vocab_items = @ \cup {item.term}],
                    Tail(items), db_fail - 1)

\* add_error_review_item that keeps one item per pattern in a tag queue
add_error_review_item_once(queue, tag, entry, step) ==
    LET old == IF tag \in DOMAIN queue THEN queue[tag] ELSE <<>>
        entry_with_schedule ==
            [pattern |-> entry.pattern, tag |-> entry.tag,
             streak |-> 0, next_due |-> step]
    IN [t \in DOMAIN queue \cup {tag} |->
            IF t = tag
            THEN IF \E i \in 1..Len(old) : old[i].pattern = entry.pattern
                 THEN old ELSE Append(old, entry_with_schedule)
            ELSE queue[t]]

\* add_error_review_item with the new item scheduled like a reviewed one
add_error_review_item_scheduled(queue, tag, entry, step) ==
    LET old == IF tag \in DOMAIN queue THEN queue[tag] ELSE <<>>
        entry_with_schedule ==
            [pattern |-> entry.pattern, tag |-> entry.tag,
             streak |-> 0, next_due |-> step + Pow2(1)]
    IN [t \in DOMAIN queue \cup {tag} |->
            IF t = tag THEN Append(old, entry_with_schedule) ELSE queue[t]]

\* add_error_review_item
add_error_review_item(queue, tag, entry, step) ==
    LET old == IF tag \in DOMAIN queue THEN queue[tag] ELSE <<>>
        entry_with_schedule ==
            [pattern |-> entry.pattern, tag |-> entry.tag,
             streak |-> 0, next_due |-> step]
    IN [t \in DOMAIN queue \cup {tag} |->
            IF t = tag THEN Append(old, entry_with_schedule) ELSE queue[t]]

\* update_error_review_item with the interval not added to the step
update_error_review_item_absolute(queue, tag, index, success, step) ==
    LET item == queue[tag][index]
        streak == IF success THEN item.streak + 1 ELSE 0
    IN [queue EXCEPT ![tag][index] =
            [item EXCEPT !.streak = streak, !.next_due = Pow2(streak)]]

\* update_error_review_item
update_error_review_item(queue, tag, index, success, step) ==
    LET item == queue[tag][index]
        streak == IF success THEN item.streak + 1 ELSE 0
    IN [queue EXCEPT ![tag][index] =
            [item EXCEPT !.streak = streak, !.next_due = step + Pow2(streak)]]

\* log_mistake with the count of a new pattern left at the 0 it is created
\* with
log_mistake_created_at_zero(L, pattern, step, write_ok) ==
    LET entry == [pattern |-> pattern, tag |-> ERROR_TAGS(pattern)]
    IN [mistake_log |->
            [p \in DOMAIN L.mistake_log \cup {pattern} |->
                IF p # pattern THEN L.mistake_log[p]
                ELSE IF pattern \in DOMAIN L.mistake_log
                     THEN L.mistake_log[p] + 1 ELSE 0],
        mistake_notebook |-> Append(L.mistake_notebook, entry),
        error_review_queue |->
            add_error_review_item(L.error_review_queue, entry.tag, entry, step),
        mistakes |-> IF write_ok THEN Append(L.mistakes, pattern)
                     ELSE L.mistakes,
        raised |-> IF write_ok THEN "" ELSE "OperationalError"]

\* log_mistake with every review item put into the queue of the tag "general"
log_mistake_untagged(L, pattern, step, write_ok) ==
    LET count == IF pattern \in DOMAIN L.mistake_log
                 THEN L.mistake_log[pattern] ELSE 0
        entry == [pattern |-> pattern, tag |-> ERROR_TAGS(pattern)]
    IN [mistake_log |->
            [p \in DOMAIN L.mistake_log \cup {pattern} |->
                IF p = pattern THEN count + 1 ELSE L.mistake_log[p]],
        mistake_notebook |-> Append(L.mistake_notebook, entry),
        error_review_queue |->
            add_error_review_item(L.error_review_queue, "general", entry, step),
        mistakes |-> IF write_ok THEN Append(L.mistakes, pattern)
                     ELSE L.mistakes,
        raised |-> IF write_ok THEN "" ELSE "OperationalError"]

\* log_mistake; write_ok tells whether the INSERT of save_mistake_entry
\* succeeds: it is the last statement, and its exception is not caught
log_mistake(L, pattern, step, write_ok) ==
    LET count == IF pattern \in DOMAIN L.mistake_log
                 THEN L.mistake_log[pattern] ELSE 0
        entry == [pattern |-> pattern, tag |-> ERROR_TAGS(pattern)]
    IN [mistake_log |->
            [p \in DOMAIN L.mistake_log \cup {pattern} |->
                IF p = pattern THEN count + 1 ELSE L.mistake_log[p]],
        mistake_notebook |-> Append(L.mistake_notebook, entry),
        error_review_queue |->
            add_error_review_item(L.error_review_queue, entry.tag, entry, step),
        mistakes |-> IF write_ok THEN Append(L.mistakes, pattern)
                     ELSE L.mistakes,
        raised |-> IF write_ok THEN "" ELSE "OperationalError"]

\* a loop that calls log_mistake for each pattern of a list, in order, until
\* a call raises; db_fail is the number of the database write of this re-run
\* that raises (0: none)
RECURSIVE LogAll(_, _, _, _)
LogAll(L, patterns, step, db_fail) ==
    IF patterns = <<>> THEN L
    ELSE LET L2 == log_mistake(L, Head(patterns), step, db_fail # 1)
         IN IF L2.raised # "" THEN L2
            ELSE LogAll(L2, Tail(patterns), step, db_fail - 1)

\* add_grammar_review_item with the new item already at streak 1
add_grammar_review_item_streak_one(queue, item_id) ==
    IF item_id \notin DOMAIN queue
    THEN [i \in DOMAIN queue \cup {item_id} |->
            IF i = item_id THEN [streak |-> 1, next_due |-> 0] ELSE queue[i]]
    ELSE queue

\* add_grammar_review_item
add_grammar_review_item(queue, item_id) ==
    IF item_id \notin DOMAIN queue
    THEN [i \in DOMAIN queue \cup {item_id} |->
            IF i = item_id THEN [streak |-> 0, next_due |-> 0] ELSE queue[i]]
    ELSE queue

\* update_grammar_review_item with a failed item made due at the current step
update_grammar_review_item_due_now(queue, item_id, success, step) ==
    LET item == queue[item_id]
        streak == IF success THEN item.streak + 1 ELSE 0
    IN [queue EXCEPT ![item_id] =
            [item EXCEPT !.streak = streak,
                         !.next_due = IF success THEN step + Pow2(streak)
                                      ELSE step]]

\* update_grammar_review_item
update_grammar_review_item(queue, item_id, success, step) ==
    LET item == queue[item_id]
        streak == IF success THEN item.streak + 1 ELSE 0
    IN [queue EXCEPT ![item_id] =
            [item EXCEPT !.streak = streak, !.next_due = step + Pow2(streak)]]

\* update_review_item with an interval that grows by one step per streak
update_review_item_linear(queue, item_id, success, step) ==
    LET item == queue[item_id]
        streak == IF success THEN item.streak + 1 ELSE 0
    IN [queue EXCEPT ![item_id] =
            [item EXCEPT !.streak = streak, !.next_due = step + streak + 1]]

\* update_review_item with the interval taken from the streak before the update
update_review_item_old_streak(queue, item_id, success, step) ==
    LET item == queue[item_id]
        streak == IF success THEN item.streak + 1 ELSE 0
    IN [queue EXCEPT ![item_id] =
            [item EXCEPT !.streak = streak,
                         !.next_due = step + Pow2(item.streak)]]

\* update_review_item
update_review_item(queue, item_id, success, step) ==
    LET item == queue[item_id]
        streak == IF success THEN item.streak + 1 ELSE 0
    IN [queue EXCEPT ![item_id] =
            [item EXCEPT !.streak = streak, !.next_due = step + Pow2(streak)]]

\* update_review_item with the item looked up by setdefault: a missing key
\* gets a new item
update_review_item_or_create(queue, item_id, success, step) ==
    LET streak == IF item_id \in DOMAIN queue /\ success
                  THEN queue[item_id].streak + 1
                  ELSE IF success THEN 1 ELSE 0
    IN [raised |-> "",
        queue |-> [t \in DOMAIN queue \cup {item_id} |->
                     IF t = item_id
                     THEN [domain |-> "", streak |-> streak,
                           next_due |-> step + Pow2(streak)]
                     ELSE queue[t]]]

\* update_review_item for any key: the lookup review_queue[item_id] in its
\* first line raises KeyError for a key that the queue does not have
update_review_item_or_raise(queue, item_id, success, step) ==
    IF item_id \notin DOMAIN queue
    THEN [raised |-> "KeyError", queue |-> queue]
    ELSE [raised |-> "",
          queue |-> update_review_item(queue, item_id, success, step)]

\* update_grammar_review_item for any key, in the same way
update_grammar_review_item_or_raise(queue, item_id, success, step) ==
    IF item_id \notin DOMAIN queue
    THEN [raised |-> "KeyError", queue |-> queue]
    ELSE [raised |-> "",
          queue |-> update_grammar_review_item(queue, item_id, success, step)]

\* a Python list index (0-based, negative from the end) as a position of the
\* sequence, 0 when the list has no such element
ListPosition(list, index) ==
    IF 0 <= index /\ index < Len(list) THEN index + 1
    ELSE IF index < 0 /\ -index <= Len(list) THEN Len(list) + index + 1
    ELSE 0

\* update_error_review_item for any tag and index: the lookup
\* error_review_queue[tag][index] in its first line raises KeyError for a
\* tag without a queue and IndexError for an index outside the list
update_error_review_item_or_raise(queue, tag, index, success, step) ==
    IF tag \notin DOMAIN queue
    THEN [raised |-> "KeyError", queue |-> queue]
    ELSE IF ListPosition(queue[tag], index) = 0
    THEN [raised |-> "IndexError", queue |-> queue]
    ELSE [raised |-> "",
          queue |-> update_error_review_item(
                        queue, tag, ListPosition(queue[tag], index), success,
                        step)]

\* the due list of a keyed queue with the items that fall due at this step
DueKeys_exact(queue, step) ==
    {k \in DOMAIN queue : queue[k].next_due = step \/ queue[k].next_due = 0}

\* the due list of a keyed queue with a strict comparison
DueKeys_strict(queue, step) == {k \in DOMAIN queue : queue[k].next_due < step}

\* the due list of a keyed queue:
\* [item for item in queue.values() if item["next_due"] <= step]
DueKeys(queue, step) == {k \in DOMAIN queue : queue[k].next_due <= step}

\* the due list of one error tag:
\* [(idx, item) for idx, item in enumerate(queue) if item["next_due"] <= step]
DueIndices(queue, step) == {i \in 1..Len(queue) : queue[i].next_due <= step}

----------------------------------------------------------------------------
(* Domain exposure *)

\* sum(st.session_state.domain_exposure.values())
RECURSIVE ExposureSum(_)
ExposureSum(exposure) ==
    IF exposure = <<>> THEN 0
    ELSE Head(exposure).count + ExposureSum(Tail(exposure))

\* domain_coverage_share with the total smoothed by 1 instead of guarded
domain_coverage_share_smoothed(exposure) ==
    [i \in 1..Len(exposure) |->
        [domain |-> exposure[i].domain, num |-> exposure[i].count,
         den |-> ExposureSum(exposure) + 1]]

\* domain_coverage_share: total = sum(...) or 1, then count / total for every
\* key, in the order of the dictionary.  A share is kept as the fraction
\* num/den that the float division rounds.
domain_coverage_share(exposure) ==
    LET total == IF ExposureSum(exposure) = 0 THEN 1 ELSE ExposureSum(exposure)
    IN [i \in 1..Len(exposure) |->
            [domain |-> exposure[i].domain, num |-> exposure[i].count,
             den |-> total]]

\* shares[i] < shares[j]: the comparison of two shares (equal denominators
\* are not assumed)
ShareLess(x, y) == x.num * y.den < y.num * x.den

\* pick_domain_pair with the last of several tied domains returned
pick_domain_pair_last(exposure) ==
    LET shares == domain_coverage_share(exposure)
        stretch == CHOOSE i \in 1..Len(shares) :
                      /\ \A j \in 1..Len(shares) : ~ShareLess(shares[j], shares[i])
                      /\ \A j \in (i + 1)..Len(shares) : ShareLess(shares[i], shares[j])
        familiar == CHOOSE i \in 1..Len(shares) :
                      /\ \A j \in 1..Len(shares) : ~ShareLess(shares[i], shares[j])
                      /\ \A j \in (i + 1)..Len(shares) : ShareLess(shares[j], shares[i])
    IN [familiar |-> shares[familiar].domain, stretch |-> shares[stretch].domain]

\* pick_domain_pair: min(shares, key=shares.get) and max(shares, key=shares.get)
\* iterate over the keys in dictionary order and keep the first key that no
\* later key beats
pick_domain_pair(exposure) ==
    LET shares == domain_coverage_share(exposure)
        stretch == CHOOSE i \in 1..Len(shares) :
                      /\ \A j \in 1..Len(shares) : ~ShareLess(shares[j], shares[i])
                      /\ \A j \in 1..(i - 1) : ShareLess(shares[i], shares[j])
        familiar == CHOOSE i \in 1..Len(shares) :
                      /\ \A j \in 1..Len(shares) : ~ShareLess(shares[i], shares[j])
                      /\ \A j \in 1..(i - 1) : ShareLess(shares[j], shares[i])
    IN [familiar |-> shares[familiar].domain, stretch |-> shares[stretch].domain]

----------------------------------------------------------------------------
(* The state after init_state() in a fresh session *)

NoDue == [tag |-> "", indices |-> {}]

NoTopicScreen == [familiar |-> "", stretch |-> "", shares |-> <<>>]

\* no text function is being called on its own
\* no item has had feedback
NeverFed == [x \in {} |-> 0]

NoCall == [name |-> "", arguments |-> <<>>, typed |-> <<>>,
           returned |-> FALSE, result |-> <<>>]

(* The queues, seen alike *)

\* the queues: "vocab", "grammar", and one per error tag
Queues == {"vocab", "grammar"} \cup DOMAIN error_review_queue

\* the step counter that the code of a queue reads
StepOf(queue) ==
    IF queue = "vocab" THEN review_step
    ELSE IF queue = "grammar" THEN grammar_review_step
    ELSE error_review_step

\* the keys of the items of a queue, in queue order for an error tag
KeysOf(queue) ==
    IF queue = "vocab" THEN DOMAIN review_queue
    ELSE IF queue = "grammar" THEN DOMAIN grammar_review_queue
    ELSE IF queue \in DOMAIN error_review_queue
         THEN 1..Len(error_review_queue[queue]) ELSE {}

\* the item of a queue with a given key
Item(queue, key) ==
    IF queue = "vocab" THEN review_queue[key]
    ELSE IF queue = "grammar" THEN grammar_review_queue[key]
    ELSE error_review_queue[queue][key]

\* the due list that the last re-run computed for a queue
DueOf(queue) ==
    IF queue = "vocab" THEN due_items
    ELSE IF queue = "grammar" THEN due_grammar
    ELSE IF queue = due_error.tag THEN due_error.indices ELSE {}

----------------------------------------------------------------------------
\* the session state that init_state() builds
InitSession ==
    /\ nav = "Overview"
    /\ review_queue = <<>>
    /\ review_step = 0
    /\ grammar_review_queue = <<>>
    /\ grammar_review_step = 0
    /\ error_review_queue = <<>>
    /\ error_review_step = 0
    /\ mistake_log = <<>>
    /\ mistake_notebook = <<>>
    /\ domain_exposure =
          [i \in 1..Len(TOPIC_DIVERSITY_DOMAINS) |->
              [domain |-> TOPIC_DIVERSITY_DOMAINS[i], count |-> 0]]
    /\ due_items = {}
    /\ due_grammar = {}
    /\ due_error = NoDue
    /\ topic_screen = NoTopicScreen
    /\ raised = ""
    /\ ev = NoEvent
    /\ unseen = {}
    /\ calls = [p \in Patterns |-> 0]
    /\ fn = NoCall
    /\ fed_at = NeverFed
    /\ seen_due = {}

\* first session: init_db() has created empty tables
Init ==
    /\ InitSession
    /\ vocab_items = {}
    /\ mistakes = <<>>

\* the three parts of the session state, as the functions above take them
V == [review_queue |-> review_queue, domain_exposure |-> domain_exposure,
      vocab_items |-> vocab_items, raised |-> ""]
L == [mistake_log |-> mistake_log, mistake_notebook |-> mistake_notebook,
      error_review_queue |-> error_review_queue, mistakes |-> mistakes,
      raised |-> ""]

SetV(V2) ==
    /\ review_queue' = V2.review_queue
    /\ domain_exposure' = V2.domain_exposure
    /\ vocab_items' = V2.vocab_items

SetL(L2) ==
    /\ mistake_log' = L2.mistake_log
    /\ mistake_notebook' = L2.mistake_notebook
    /\ error_review_queue' = L2.error_review_queue
    /\ mistakes' = L2.mistakes

\* history of one re-run: the feedback applied (with the item as it was),
\* the queues whose due list was computed, the items created, the items
\* for which this was the first due query of their queue since they were
\* created, the patterns passed to log_mistake, the items passed to
\* add_review_items, the text evaluated by a matcher, and the arguments of
\* a direct call of a feedback function
Remember(e) ==
    /\ ev' = [e EXCEPT
                !.first = {x \in unseen \cup e.created : x.queue \in e.queried}]
    /\ unseen' = {x \in unseen \cup e.created : x.queue \notin e.queried}
    /\ calls' = [p \in Patterns |-> calls[p] + Count(e.logged, p)]
    /\ fed_at' =
          LET fed == {<<f.queue, f.key>> : f \in e.fed}
          IN [x \in DOMAIN fed_at \cup fed |->
                IF x \in fed
                THEN [step |-> StepOf(x[1])', streak |-> Item(x[1], x[2])'.streak]
                ELSE fed_at[x]]
    /\ seen_due' =
          (seen_due \cup UNION {{<<q, k>> : k \in DueOf(q)'} : q \in e.queried})
            \ {<<f.queue, f.key>> : f \in e.fed}
    /\ UNCHANGED fn

Record(fed, queried, created) ==
    Remember([NoEvent EXCEPT !.fed = fed, !.queried = queried,
                             !.created = created])

\* the error items that L2 has and L0 has not
NewErrorItems(L0, L2) ==
    {x \in [queue : DOMAIN L2.error_review_queue,
            key : 1..Len(L2.mistake_notebook)] :
        /\ x.key <= Len(L2.error_review_queue[x.queue])
        /\ x.key > (IF x.queue \in DOMAIN L0.error_review_queue
                    THEN Len(L0.error_review_queue[x.queue]) ELSE 0)}

\* the calls that a loop over patterns makes when the write number db_fail
\* raises: the loop ends with the call that raises
CallsMade(patterns, db_fail) ==
    IF db_fail \in 1..Len(patterns) THEN SubSeq(patterns, 1, db_fail)
    ELSE patterns

\* what a re-run leaves on screen, on a page other than the topic engine
Shows(page, vocab_due, grammar_due, error_due, exception) ==
    /\ nav' = page
    /\ due_items' = vocab_due
    /\ due_grammar' = grammar_due
    /\ due_error' = error_due
    /\ topic_screen' = NoTopicScreen
    /\ raised' = exception

\* an uncaught exception ends the re-run: the rest of the page is not
\* rendered
Aborted(page, exception) == Shows(page, {}, {}, NoDue, exception)

----------------------------------------------------------------------------
(* render_growth_studio *)

\* section 5 of the page: the step advances and the due list is computed;
\* queue is the vocabulary queue at that point of the re-run
GrowthReviewSection(queue) ==
    /\ review_step' = review_step + 1
    /\ Shows("Growth Studio", DueKeys(queue, review_step'), {}, NoDue, "")

\* the page is rendered and no button was clicked
RenderGrowthStudio ==
    /\ GrowthReviewSection(review_queue)
    /\ UNCHANGED <<vocabVars, grammarVars, grammar_review_step, ledgerVars,
                   error_review_step>>
    /\ Record({}, {"vocab"}, {})

\* the items that "Save vocab to review" passes: the entries of the lexicon
\* whose term is chosen, in lexicon order, with the selected domain
GrowthItems(chosen) ==
    LET terms == SelectSeq(GrowthTerms, LAMBDA t : t \in chosen)
    IN [i \in 1..Len(terms) |->
            [term |-> terms[i], domain |-> GrowthDomain, example |-> TRUE]]

\* "Save vocab to review" with the chosen terms of the selected domain
GrowthSaveVocab(chosen, db_fail) ==
    /\ UNCHANGED <<grammarVars, grammar_review_step, ledgerVars,
                   error_review_step>>
    /\ nav = "Growth Studio"
    /\ LET V2 == add_review_items(V, GrowthItems(chosen), db_fail)
           e == [NoEvent EXCEPT
                   !.saved = GrowthItems(chosen),
                   !.created = {[queue |-> "vocab", key |-> t] :
                        t \in DOMAIN V2.review_queue \ DOMAIN review_queue}]
       IN /\ SetV(V2)
          /\ IF V2.raised = ""
             THEN /\ GrowthReviewSection(V2.review_queue)
                  /\ Remember([e EXCEPT !.queried = {"vocab"}])
             ELSE /\ Aborted("Growth Studio", V2.raised)
                  /\ UNCHANGED review_step
                  /\ Remember(e)

\* the rest of a re-run of the page whose handler has logged mistakes
GrowthAfterLog(L0, L2, e) ==
    /\ SetL(L2)
    /\ IF L2.raised = ""
       THEN /\ GrowthReviewSection(review_queue)
            /\ Remember([e EXCEPT !.queried = {"vocab"},
                                  !.created = @ \cup NewErrorItems(L0, L2)])
       ELSE /\ Aborted("Growth Studio", L2.raised)
            /\ UNCHANGED review_step
            /\ Remember([e EXCEPT !.created = @ \cup NewErrorItems(L0, L2)])

\* "Check verb choice" with a verb that is not the best one
GrowthCheckVerb(db_fail) ==
    /\ UNCHANGED <<vocabVars, grammarVars, grammar_review_step,
                   error_review_step>>
    /\ nav = "Growth Studio"
    /\ GrowthAfterLog(L, log_mistake(L, "verb precision", error_review_step,
                                     db_fail # 1),
                      [NoEvent EXCEPT !.logged = <<"verb precision">>])

\* for drill, choice in drill_results: the drills answered wrongly are logged
\* and added to the grammar queue, in list order
RECURSIVE CheckGrammarDrills(_, _, _, _, _)
CheckGrammarDrills(LG, drills, wrong, step, db_fail) ==
    IF drills = <<>> THEN LG
    ELSE IF Head(drills) \in wrong
         THEN LET L2 == log_mistake(LG.ledger, Head(drills), step, db_fail # 1)
              IN IF L2.raised # "" THEN [LG EXCEPT !.ledger = L2]
                 ELSE CheckGrammarDrills(
                        [ledger |-> L2,
                         grammar |->
                            add_grammar_review_item(LG.grammar, Head(drills))],
                        Tail(drills), wrong, step, db_fail - 1)
         ELSE CheckGrammarDrills(LG, Tail(drills), wrong, step, db_fail)

\* "Check grammar drills"; wrong is the set of drills answered wrongly
GrowthCheckGrammar(wrong, db_fail) ==
    /\ UNCHANGED <<vocabVars, grammar_review_step, error_review_step>>
    /\ nav = "Growth Studio"
    /\ LET LG == CheckGrammarDrills(
                    [ledger |-> L, grammar |-> grammar_review_queue],
                    GRAMMAR_MICRODRILLS, wrong, error_review_step, db_fail)
       IN /\ grammar_review_queue' = LG.grammar
          /\ GrowthAfterLog(L, LG.ledger,
                [NoEvent EXCEPT
                   !.logged = CallsMade(SelectSeq(GRAMMAR_MICRODRILLS,
                                            LAMBDA d : d \in wrong), db_fail),
                   !.created = {[queue |-> "grammar", key |-> i] :
                        i \in DOMAIN LG.grammar \ DOMAIN grammar_review_queue}])

\* "Evaluate output" on the text of the output challenge
GrowthEvaluateOutput(output_text, db_fail) ==
    /\ UNCHANGED <<vocabVars, grammarVars, grammar_review_step,
                   error_review_step>>
    /\ nav = "Growth Studio"
    /\ GrowthAfterLog(L, LogAll(L, MatchedMistakes(output_text),
                                error_review_step, db_fail),
                      [NoEvent EXCEPT
                         !.logged = CallsMade(MatchedMistakes(output_text),
                                              db_fail),
                         !.evaluated = "Evaluate output",
                         !.text = output_text])

\* "Got it" / "Missed" of a term of the due list on screen; the button is
\* rendered again only if the term is in the new due list
GrowthReview(term, success) ==
    /\ UNCHANGED <<domain_exposure, vocab_items, grammarVars,
                   grammar_review_step, ledgerVars, error_review_step>>
    /\ nav = "Growth Studio"
    /\ term \in due_items
    /\ GrowthReviewSection(review_queue)
    /\ IF term \in due_items'
       THEN /\ review_queue' =
                   update_review_item(review_queue, term, success, review_step')
            /\ Record({[queue |-> "vocab", key |-> term, success |-> success,
                        was |-> review_queue[term]]}, {"vocab"}, {})
       ELSE /\ UNCHANGED review_queue
            /\ Record({}, {"vocab"}, {})

----------------------------------------------------------------------------
(* render_review_hub *)

\* both steps advance and both due lists are computed
HubQueries ==
    /\ review_step' = review_step + 1
    /\ grammar_review_step' = grammar_review_step + 1
    /\ Shows("Review Hub", DueKeys(review_queue, review_step'),
             DueKeys(grammar_review_queue, grammar_review_step'), NoDue, "")

\* the page is rendered and no button was clicked
RenderReviewHub ==
    /\ HubQueries
    /\ UNCHANGED <<vocabVars, grammarVars, ledgerVars, error_review_step>>
    /\ Record({}, {"vocab", "grammar"}, {})

\* "Got it" / "Missed" of a vocabulary term of the due list on screen
HubVocabReview(term, success) ==
    /\ UNCHANGED <<domain_exposure, vocab_items, grammarVars, ledgerVars,
                   error_review_step>>
    /\ nav = "Review Hub"
    /\ term \in due_items
    /\ HubQueries
    /\ IF term \in due_items'
       THEN /\ review_queue' =
                   update_review_item(review_queue, term, success, review_step')
            /\ Record({[queue |-> "vocab", key |-> term, success |-> success,
                        was |-> review_queue[term]]},
                      {"vocab", "grammar"}, {})
       ELSE /\ UNCHANGED review_queue
            /\ Record({}, {"vocab", "grammar"}, {})

\* "Got it" / "Missed" of a grammar item of the due list on screen
HubGrammarReview(item_id, success) ==
    /\ UNCHANGED <<vocabVars, ledgerVars, error_review_step>>
    /\ nav = "Review Hub"
    /\ item_id \in due_grammar
    /\ HubQueries
    /\ IF item_id \in due_grammar'
       THEN /\ grammar_review_queue' =
                   update_grammar_review_item(grammar_review_queue, item_id,
                                              success, grammar_review_step')
            /\ Record({[queue |-> "grammar", key |-> item_id,
                        success |-> success,
                        was |-> grammar_review_queue[item_id]]},
                      {"vocab", "grammar"}, {})
       ELSE /\ UNCHANGED grammar_review_queue
            /\ Record({}, {"vocab", "grammar"}, {})

----------------------------------------------------------------------------
(* render_error_notebook *)

\* sorted(tag_counts.keys()): the tags of the notebook entries
NotebookTags == {mistake_notebook[i].tag : i \in 1..Len(mistake_notebook)}

\* the step advances and the due list of the selected tag is computed
ErrorQuery(tag) ==
    /\ error_review_step' = error_review_step + 1
    /\ Shows("Error Notebook", {}, {},
             [tag |-> tag,
              indices |-> DueIndices(IF tag \in DOMAIN error_review_queue
                                     THEN error_review_queue[tag] ELSE <<>>,
                                     error_review_step')], "")

\* the page is rendered with a tag selected and no button clicked; with an
\* empty notebook the function returns before the step is touched
RenderErrorNotebook(tag) ==
    /\ UNCHANGED <<vocabVars, review_step, grammarVars, grammar_review_step,
                   ledgerVars>>
    /\ IF mistake_notebook = <<>>
       THEN /\ Shows("Error Notebook", {}, {}, NoDue, "")
            /\ UNCHANGED error_review_step
            /\ Record({}, {}, {})
       ELSE /\ tag \in NotebookTags
            /\ ErrorQuery(tag)
            /\ Record({}, {tag}, {})

\* "Got it" / "Missed" of the item on screen, due_items[0] of the last
\* render; its buttons are rendered again only if it is still due_items[0]
ErrorReview(success) ==
    /\ UNCHANGED <<vocabVars, review_step, grammarVars, grammar_review_step,
                   mistake_log, mistake_notebook, mistakes>>
    /\ nav = "Error Notebook"
    /\ due_error.indices # {}
    /\ LET tag == due_error.tag
           idx == Min(due_error.indices)
       IN /\ ErrorQuery(tag)
          /\ IF due_error'.indices # {} /\ Min(due_error'.indices) = idx
             THEN /\ error_review_queue' =
                        update_error_review_item(error_review_queue, tag, idx,
                                                 success, error_review_step')
                  /\ Record({[queue |-> tag, key |-> idx,
                              success |-> success,
                              was |-> error_review_queue[tag][idx]]},
                            {tag}, {})
             ELSE /\ UNCHANGED error_review_queue
                  /\ Record({}, {tag}, {})

----------------------------------------------------------------------------
(* render_tiny_mistake_catcher *)

\* render_tiny_mistake_catcher: the page is rendered, no button was clicked
RenderTinyMistakeCatcher ==
    /\ Shows("Tiny Mistake Catcher", {}, {}, NoDue, "")
    /\ UNCHANGED <<vocabVars, review_step, grammarVars, grammar_review_step,
                   ledgerVars, error_review_step>>
    /\ Record({}, {}, {})

\* render_tiny_mistake_catcher: the corrections found in the draft
Corrections(draft) ==
    MatchedMistakes(draft) \o
    (IF /\ Contains(Lower(draft), <<"s","e","r">>)
        /\ Contains(Lower(draft), <<"l","i","s","t","o">>)
        /\ ~Contains(Lower(draft), <<"e","s","t","a'">>)
     THEN <<"ser listo">> ELSE <<>>)

\* render_tiny_mistake_catcher, "Check sentence"
CatcherCheck(draft, db_fail) ==
    /\ UNCHANGED <<vocabVars, review_step, grammarVars, grammar_review_step,
                   error_review_step>>
    /\ nav = "Tiny Mistake Catcher"
    /\ LET L2 == LogAll(L, Corrections(draft), error_review_step, db_fail)
       IN /\ SetL(L2)
          /\ Shows("Tiny Mistake Catcher", {}, {}, NoDue, L2.raised)
          /\ Remember([NoEvent EXCEPT
                         !.created = NewErrorItems(L, L2),
                         !.logged = CallsMade(Corrections(draft), db_fail),
                         !.evaluated = "Check sentence",
                         !.text = draft])

----------------------------------------------------------------------------
(* render_topic_diversity_engine *)

\* the head of the page: the suggested mix from pick_domain_pair()
TopicHead ==
    /\ nav' = "Topic Diversity"
    /\ due_items' = {}
    /\ due_grammar' = {}
    /\ due_error' = NoDue

\* the foot of the page: the coverage bars from domain_coverage_share()
TopicScreen(shown) ==
    topic_screen' =
        [familiar |-> pick_domain_pair(domain_exposure).familiar,
         stretch |-> pick_domain_pair(domain_exposure).stretch,
         shares |-> shown]

\* the page is rendered and no button was clicked
RenderTopicDiversity ==
    /\ TopicHead
    /\ TopicScreen(domain_coverage_share(domain_exposure))
    /\ raised' = ""
    /\ UNCHANGED <<vocabVars, review_step, grammarVars, grammar_review_step,
                   ledgerVars, error_review_step>>
    /\ Record({}, {}, {})

\* "Log exposure" with a domain chosen in the selectbox
TopicLogExposure(selected_domain) ==
    /\ nav = "Topic Diversity"
    /\ TopicHead
    /\ domain_exposure' = record_domain_exposure(domain_exposure, selected_domain)
    /\ TopicScreen(domain_coverage_share(domain_exposure'))
    /\ raised' = ""
    /\ UNCHANGED <<review_queue, vocab_items, review_step, grammarVars,
                   grammar_review_step, ledgerVars, error_review_step>>
    /\ Record({}, {}, {})

\* the items that "Save selected terms" passes: the lexicon entries of the
\* selected terms with the selected domain
TopicItems(selected_domain, selected_terms) ==
    LET terms == SelectSeq(TopicTerms(selected_domain),
                           LAMBDA t : t \in selected_terms)
    IN [i \in 1..Len(terms) |->
            [term |-> terms[i], domain |-> selected_domain, example |-> FALSE]]

\* "Save selected terms" with the terms chosen in the multiselect
TopicSaveTerms(selected_domain, selected_terms, db_fail) ==
    /\ UNCHANGED <<review_step, grammarVars, grammar_review_step, ledgerVars,
                   error_review_step>>
    /\ nav = "Topic Diversity"
    /\ TopicHead
    /\ LET items == TopicItems(selected_domain, selected_terms)
           V2 == add_review_items(V, items, db_fail)
       IN /\ SetV(V2)
          /\ raised' = V2.raised
          /\ TopicScreen(IF V2.raised = ""
                         THEN domain_coverage_share(V2.domain_exposure)
                         ELSE <<>>)
          /\ Remember([NoEvent EXCEPT
                         !.saved = items,
                         !.created = {[queue |-> "vocab", key |-> t] :
                            t \in DOMAIN V2.review_queue \ DOMAIN review_queue}])

----------------------------------------------------------------------------
(* render_settings *)

\* the keys of the dictionary that add_review_items stores for a term
VocabItemKeys == {"term", "meaning", "example", "domain", "register", "pos",
                  "streak", "next_due"}

\* the keys of the entry that log_mistake appends to the notebook
MistakeEntryKeys == {"date", "pattern", "correction", "tag", "confidence",
                     "user_text", "corrected_text"}

\* fieldnames of the two DictWriters
VocabFieldnames == {"term", "meaning", "example", "domain", "register", "pos"}
MistakeFieldnames == {"date", "pattern", "correction", "tag", "confidence",
                      "user_text", "corrected_text"}

\* csv.DictWriter.writerow with the default extrasaction="raise": a row
\* with a key that is not a fieldname raises ValueError; a fieldname the
\* row lacks is written as the empty string
writerow(fieldnames, keys) ==
    IF keys \subseteq fieldnames THEN "" ELSE "ValueError"

\* the exception that ends render_settings, "" if it runs to its end.  The
\* three json.dumps calls come first and get lists of dictionaries of
\* strings, numbers and None, which they accept; then every vocabulary item
\* and every notebook entry is written as a CSV row.  The transcript rows
\* are built from the two fieldnames
ExportOutcome ==
    IF review_queue # <<>> /\ writerow(VocabFieldnames, VocabItemKeys) # ""
    THEN writerow(VocabFieldnames, VocabItemKeys)
    ELSE IF mistake_notebook # <<>>
    THEN writerow(MistakeFieldnames, MistakeEntryKeys)
    ELSE ""

\* the page is rendered (it has no buttons but the downloads)
RenderSettings ==
    /\ Shows("Settings", {}, {}, NoDue, ExportOutcome)
    /\ UNCHANGED <<vocabVars, review_step, grammarVars, grammar_review_step,
                   ledgerVars, error_review_step>>
    /\ Record({}, {}, {})

----------------------------------------------------------------------------
(* The session: any sequence of re-runs, within the bounds *)

Max2(a, b) == IF a >= b THEN a ELSE b

\* one unit for every vocabulary or error due query, five for every logged
\* mistake and for every recorded exposure
Effort ==
    review_step + error_review_step
    + 5 * (Max2(Len(mistake_notebook), Len(mistakes))
           + ExposureSum(domain_exposure))

WithinBounds == Effort' <= MaxEffort

\* the re-runs of a session whose database accepts every write
Next ==
    \/ RenderGrowthStudio /\ WithinBounds
    \/ \E chosen \in SUBSET GrowthLexicon :
          GrowthSaveVocab(chosen, 0) /\ WithinBounds
    \/ GrowthCheckVerb(0) /\ WithinBounds
    \/ \E wrong \in SUBSET Range(GRAMMAR_MICRODRILLS) :
          GrowthCheckGrammar(wrong, 0) /\ WithinBounds
    \/ \E output_text \in Texts :
          GrowthEvaluateOutput(output_text, 0) /\ WithinBounds
    \/ \E term \in GrowthLexicon, success \in BOOLEAN :
          GrowthReview(term, success) /\ WithinBounds
    \/ RenderReviewHub /\ WithinBounds
    \/ \E term \in GrowthLexicon, success \in BOOLEAN :
          HubVocabReview(term, success) /\ WithinBounds
    \/ \E item_id \in Range(GRAMMAR_MICRODRILLS), success \in BOOLEAN :
          HubGrammarReview(item_id, success) /\ WithinBounds
    \/ \E tag \in NotebookTags \cup {""} :
          RenderErrorNotebook(tag) /\ WithinBounds
    \/ \E success \in BOOLEAN : ErrorReview(success) /\ WithinBounds
    \/ RenderTinyMistakeCatcher
    \/ \E draft \in Texts : CatcherCheck(draft, 0) /\ WithinBounds
    \/ RenderTopicDiversity
    \/ \E selected_domain \in TopicDomains :
          TopicLogExposure(selected_domain) /\ WithinBounds
    \/ \E selected_domain \in TopicDomains :
          \E selected_terms \in SUBSET Range(TopicTerms(selected_domain)) :
              TopicSaveTerms(selected_domain, selected_terms, 0)
    \/ RenderSettings

Spec == Init /\ [][Next]_vars

----------------------------------------------------------------------------
(* Sessions on a database that may refuse a write *)

\* a new session (the browser tab is reloaded, the server restarted): main()
\* calls init_db(), which keeps the tables, and init_state(), which builds
\* the session state from literals and reads no table
NewSession ==
    /\ nav' = "Overview"
    /\ review_queue' = <<>>
    /\ review_step' = 0
    /\ grammar_review_queue' = <<>>
    /\ grammar_review_step' = 0
    /\ error_review_queue' = <<>>
    /\ error_review_step' = 0
    /\ mistake_log' = <<>>
    /\ mistake_notebook' = <<>>
    /\ domain_exposure' =
          [i \in 1..Len(TOPIC_DIVERSITY_DOMAINS) |->
              [domain |-> TOPIC_DIVERSITY_DOMAINS[i], count |-> 0]]
    /\ due_items' = {}
    /\ due_grammar' = {}
    /\ due_error' = NoDue
    /\ topic_screen' = NoTopicScreen
    /\ raised' = ""
    /\ ev' = NoEvent
    /\ unseen' = {}
    /\ calls' = [p \in Patterns |-> 0]
    /\ fed_at' = NeverFed
    /\ seen_due' = {}
    /\ UNCHANGED <<vocab_items, mistakes, fn>>

WithinStorageBounds == Effort' <= MaxStorageEffort

\* the re-runs of a session; a re-run that writes to the database may have
\* one of its writes refused
NextStorage ==
    \/ RenderGrowthStudio /\ WithinStorageBounds
    \/ \E chosen \in SUBSET GrowthLexicon, db_fail \in 0..MaxWrites :
          GrowthSaveVocab(chosen, db_fail) /\ WithinStorageBounds
    \/ \E db_fail \in 0..MaxWrites :
          GrowthCheckVerb(db_fail) /\ WithinStorageBounds
    \/ \E wrong \in SUBSET Range(GRAMMAR_MICRODRILLS), db_fail \in 0..MaxWrites :
          GrowthCheckGrammar(wrong, db_fail) /\ WithinStorageBounds
    \/ \E output_text \in Texts, db_fail \in 0..MaxWrites :
          GrowthEvaluateOutput(output_text, db_fail) /\ WithinStorageBounds
    \/ \E term \in GrowthLexicon, success \in BOOLEAN :
          GrowthReview(term, success) /\ WithinStorageBounds
    \/ RenderReviewHub /\ WithinStorageBounds
    \/ \E term \in GrowthLexicon, success \in BOOLEAN :
          HubVocabReview(term, success) /\ WithinStorageBounds
    \/ \E item_id \in Range(GRAMMAR_MICRODRILLS), success \in BOOLEAN :
          HubGrammarReview(item_id, success) /\ WithinStorageBounds
    \/ \E tag \in NotebookTags \cup {""} :
          RenderErrorNotebook(tag) /\ WithinStorageBounds
    \/ \E success \in BOOLEAN : ErrorReview(success) /\ WithinStorageBounds
    \/ RenderTinyMistakeCatcher
    \/ \E draft \in Texts, db_fail \in 0..MaxWrites :
          CatcherCheck(draft, db_fail) /\ WithinStorageBounds
    \/ RenderTopicDiversity
    \/ \E selected_domain \in TopicDomains :
          TopicLogExposure(selected_domain) /\ WithinStorageBounds
    \/ \E selected_domain \in TopicDomains, db_fail \in 0..MaxWrites :
          \E selected_terms \in SUBSET Range(TopicTerms(selected_domain)) :
              TopicSaveTerms(selected_domain, selected_terms, db_fail)
    \/ RenderSettings
    \/ NewSession

SpecStorage == Init /\ [][NextStorage]_vars

----------------------------------------------------------------------------
(* Direct calls of the feedback functions, as a test of the module makes   *)
(* them: on a fresh session in which some terms were added, some drills    *)
(* failed and some mistakes logged, the three functions are called with    *)
(* any key                                                                  *)

\* the mistakes logged before the calls
FeedbackLogs ==
    { <<>>, <<"dependen en">>, <<"dependen en", "dependen en">> }

InitFeedback ==
    \E chosen \in SUBSET {GrowthTerms[1]},
       wrong \in SUBSET Range(GRAMMAR_MICRODRILLS),
       patterns \in FeedbackLogs :
        LET V0 == [review_queue |-> <<>>,
                   domain_exposure |->
                      [i \in 1..Len(TOPIC_DIVERSITY_DOMAINS) |->
                          [domain |-> TOPIC_DIVERSITY_DOMAINS[i], count |-> 0]],
                   vocab_items |-> {}, raised |-> ""]
            L0 == [mistake_log |-> <<>>, mistake_notebook |-> <<>>,
                   error_review_queue |-> <<>>, mistakes |-> <<>>,
                   raised |-> ""]
            V2 == add_review_items(V0, GrowthItems(chosen), 0)
            LG == CheckGrammarDrills([ledger |-> L0, grammar |-> <<>>],
                                     GRAMMAR_MICRODRILLS, wrong, 0, 0)
            L2 == LogAll(LG.ledger, patterns, 0, 0)
        IN /\ nav = "Overview"
           /\ review_queue = V2.review_queue
           /\ domain_exposure = V2.domain_exposure
           /\ vocab_items = V2.vocab_items
           /\ review_step = 0
           /\ grammar_review_queue = LG.grammar
           /\ grammar_review_step = 0
           /\ error_review_queue = L2.error_review_queue
           /\ error_review_step = 0
           /\ mistake_log = L2.mistake_log
           /\ mistake_notebook = L2.mistake_notebook
           /\ mistakes = L2.mistakes
           /\ due_items = {}
           /\ due_grammar = {}
           /\ due_error = NoDue
           /\ topic_screen = NoTopicScreen
           /\ raised = ""
           /\ ev = NoEvent
           /\ unseen = {}
           /\ calls = [p \in Patterns |->
                         Count(patterns, p)
                         + (IF p \in wrong THEN 1 ELSE 0)]
           /\ fn = NoCall
           /\ fed_at = NeverFed
           /\ seen_due = {}

\* what a direct call leaves: its exception, if any, and its arguments
Called(exception, arguments) ==
    /\ raised' = exception
    /\ ev' = [NoEvent EXCEPT !.called = arguments]
    /\ UNCHANGED <<nav, due_items, due_grammar, due_error, topic_screen,
                   unseen, calls, review_step, grammar_review_step,
                   error_review_step, domain_exposure, vocab_items,
                   mistake_log, mistake_notebook, mistakes, fn, fed_at,
                   seen_due>>

\* update_review_item(item_id, success)
CallUpdateReviewItem(item_id, success) ==
    LET r == update_review_item_or_raise(review_queue, item_id, success,
                                         review_step)
    IN /\ \A t \in DOMAIN r.queue : r.queue[t].streak <= MaxCallStreak
       /\ review_queue' = r.queue
       /\ Called(r.raised, <<"update_review_item", item_id>>)
       /\ UNCHANGED <<grammar_review_queue, error_review_queue>>

\* update_grammar_review_item(item_id, success)
CallUpdateGrammarReviewItem(item_id, success) ==
    LET r == update_grammar_review_item_or_raise(
                grammar_review_queue, item_id, success, grammar_review_step)
    IN /\ \A t \in DOMAIN r.queue : r.queue[t].streak <= MaxCallStreak
       /\ grammar_review_queue' = r.queue
       /\ Called(r.raised, <<"update_grammar_review_item", item_id>>)
       /\ UNCHANGED <<review_queue, error_review_queue>>

\* update_error_review_item(tag, index, success)
CallUpdateErrorReviewItem(tag, index, success) ==
    LET r == update_error_review_item_or_raise(
                error_review_queue, tag, index, success, error_review_step)
    IN /\ \A t \in DOMAIN r.queue : \A i \in 1..Len(r.queue[t]) :
             r.queue[t][i].streak <= MaxCallStreak
       /\ error_review_queue' = r.queue
       /\ Called(r.raised, <<"update_error_review_item", tag, index>>)
       /\ UNCHANGED <<review_queue, grammar_review_queue>>

NextFeedback ==
    \/ \E item_id \in GrowthLexicon, success \in BOOLEAN :
          CallUpdateReviewItem(item_id, success)
    \/ \E item_id \in Range(GRAMMAR_MICRODRILLS), success \in BOOLEAN :
          CallUpdateGrammarReviewItem(item_id, success)
    \/ \E tag \in {ERROR_TAGS(p) : p \in Patterns},
          index \in (-MaxIndex - 1)..MaxIndex, success \in BOOLEAN :
          CallUpdateErrorReviewItem(tag, index, success)

SpecFeedback == InitFeedback /\ [][NextFeedback]_vars

----------------------------------------------------------------------------
(* Text functions, called on their own.  A text is a sequence of           *)
(* characters; a character outside ASCII is written as its letter followed *)
(* by its mark ("a'" for a-acute, "n~" for n-tilde).  src/app.py holds its *)
(* accented literals as two characters each (a-acute as square root sign   *)
(* and degree sign, i-acute as square root sign and not-equal sign); they  *)
(* are written "<sqrt>", "<deg>" and "<ne>".                                *)

\* sequences over S of length 0..n
ListsUpTo(S, n) == UNION {[1..k -> S] : k \in 0..n}

\* dict[key] = value on a dictionary kept as the list of its entries in
\* insertion order: a new key goes to the end, a known key keeps its place
DictSet(dict, key, value) ==
    IF \E i \in 1..Len(dict) : dict[i].key = key
    THEN [i \in 1..Len(dict) |->
            IF dict[i].key = key THEN [key |-> key, value |-> value]
            ELSE dict[i]]
    ELSE Append(dict, [key |-> key, value |-> value])

\* dict.get(key, default)
DictGet(dict, key, default) ==
    IF \E i \in 1..Len(dict) : dict[i].key = key
    THEN dict[CHOOSE i \in 1..Len(dict) : dict[i].key = key].value
    ELSE default

----------------------------------------------------------------------------
(* analyze_constraints *)

\* the marker lists of analyze_constraints
concessives ==
    << <<"a", "u", "n", "q", "u", "e">>,
       <<"s", "i", " ", "b", "i", "e", "n">>,
       <<"a", " ", "p", "e", "s", "a", "r", " ", "d", "e">>,
       <<"n", "o", " ", "o", "b", "s", "t", "a", "n", "t", "e">> >>
softeners ==
    << <<"q", "u", "i", "z", "<sqrt>", "<deg>">>,
       <<"t", "a", "l", " ", "v", "e", "z">>,
       <<"m", "e", " ", "p", "a", "r", "e", "c", "e">>,
       <<"p", "o", "d", "r", "<sqrt>", "<ne>", "a">> >>
redirect ==
    << <<"e", "n", " ", "t", "o", "d", "o", " ", "c", "a", "s", "o">>,
       <<"d", "e", " ", "t", "o", "d", "o", "s", " ", "m", "o", "d", "o",
         "s">>,
       <<"e", "n", " ", "c", "u", "a", "l", "q", "u", "i", "e", "r", " ",
         "c", "a", "s", "o">> >>

\* the texts that select the category of a constraint, and the words looked
\* for in the response
\* "concessive"
Chars_concessive == <<"c", "o", "n", "c", "e", "s", "s", "i", "v", "e">>
\* "softeners"
Chars_softeners == <<"s", "o", "f", "t", "e", "n", "e", "r", "s">>
\* "redirecting"
Chars_redirecting ==
    <<"r", "e", "d", "i", "r", "e", "c", "t", "i", "n", "g">>
\* "formal usted"
Chars_formal_usted ==
    <<"f", "o", "r", "m", "a", "l", " ", "u", "s", "t", "e", "d">>
\* "Avoid English-like calques"
Chars_avoid_calques ==
    <<"A", "v", "o", "i", "d", " ", "E", "n", "g", "l", "i", "s", "h",
      "-", "l", "i", "k", "e", " ", "c", "a", "l", "q", "u", "e", "s">>
\* "usted"
Chars_usted == <<"u", "s", "t", "e", "d">>
\* "su "
Chars_su == <<"s", "u", " ">>
\* "aplicar para"
Chars_aplicar_para ==
    <<"a", "p", "l", "i", "c", "a", "r", " ", "p", "a", "r", "a">>

\* the constraints of CONVERSATION_SCENARIOS
\* "Use 3 concessive structures (aunque, si bien, a pesar de)."
Constraint_concessive ==
    <<"U", "s", "e", " ", "3", " ", "c", "o", "n", "c", "e", "s", "s",
      "i", "v", "e", " ", "s", "t", "r", "u", "c", "t", "u", "r", "e",
      "s", " ", "(", "a", "u", "n", "q", "u", "e", ",", " ", "s", "i",
      " ", "b", "i", "e", "n", ",", " ", "a", " ", "p", "e", "s", "a",
      "r", " ", "d", "e", ")", ".">>
\* "Maintain formal usted throughout."
Constraint_usted ==
    <<"M", "a", "i", "n", "t", "a", "i", "n", " ", "f", "o", "r", "m",
      "a", "l", " ", "u", "s", "t", "e", "d", " ", "t", "h", "r", "o",
      "u", "g", "h", "o", "u", "t", ".">>
\* "Avoid English-like calques."
Constraint_calques ==
    <<"A", "v", "o", "i", "d", " ", "E", "n", "g", "l", "i", "s", "h",
      "-", "l", "i", "k", "e", " ", "c", "a", "l", "q", "u", "e", "s",
      ".">>
\* "Include 2 softeners (quiz√°, me parece, tal vez)."
Constraint_softeners ==
    <<"I", "n", "c", "l", "u", "d", "e", " ", "2", " ", "s", "o", "f",
      "t", "e", "n", "e", "r", "s", " ", "(", "q", "u", "i", "z", "<sqrt>",
      "<deg>", ",", " ", "m", "e", " ", "p", "a", "r", "e", "c", "e", ",",
      " ", "t", "a", "l", " ", "v", "e", "z", ")", ".">>
\* "Use one redirecting phrase (en todo caso, de todos modos)."
Constraint_redirecting ==
    <<"U", "s", "e", " ", "o", "n", "e", " ", "r", "e", "d", "i", "r",
      "e", "c", "t", "i", "n", "g", " ", "p", "h", "r", "a", "s", "e",
      " ", "(", "e", "n", " ", "t", "o", "d", "o", " ", "c", "a", "s",
      "o", ",", " ", "d", "e", " ", "t", "o", "d", "o", "s", " ", "m",
      "o", "d", "o", "s", ")", ".">>

\* constraints of no category: a text without any of the category words, the
\* calque constraint in lower case (that category is matched with its
\* capitals), and the empty text
\* "Keep it brief."
Constraint_brief ==
    <<"K", "e", "e", "p", " ", "i", "t", " ", "b", "r", "i", "e", "f",
      ".">>
\* "avoid english-like calques."
Constraint_calques_lower ==
    <<"a", "v", "o", "i", "d", " ", "e", "n", "g", "l", "i", "s", "h",
      "-", "l", "i", "k", "e", " ", "c", "a", "l", "q", "u", "e", "s",
      ".">>
Constraint_empty == <<>>

RecognisedConstraints ==
    {Constraint_concessive, Constraint_usted, Constraint_calques,
     Constraint_softeners, Constraint_redirecting}
UnrecognisedConstraints ==
    {Constraint_brief, Constraint_calques_lower, Constraint_empty}

\* the responses typed by the user
\* "Aunque usted insiste, si bien a pesar de todo"
Response_concessive ==
    <<"A", "u", "n", "q", "u", "e", " ", "u", "s", "t", "e", "d", " ",
      "i", "n", "s", "i", "s", "t", "e", ",", " ", "s", "i", " ", "b",
      "i", "e", "n", " ", "a", " ", "p", "e", "s", "a", "r", " ", "d",
      "e", " ", "t", "o", "d", "o">>
\* "Tal vez, me parece; en todo caso no voy a aplicar para eso"
Response_softened ==
    <<"T", "a", "l", " ", "v", "e", "z", ",", " ", "m", "e", " ", "p",
      "a", "r", "e", "c", "e", ";", " ", "e", "n", " ", "t", "o", "d",
      "o", " ", "c", "a", "s", "o", " ", "n", "o", " ", "v", "o", "y",
      " ", "a", " ", "a", "p", "l", "i", "c", "a", "r", " ", "p", "a",
      "r", "a", " ", "e", "s", "o">>
Responses == {<<>>, Response_concessive, Response_softened}

\* how many phrases of a list occur in a text
Hits(lowered, phrases) ==
    Cardinality({i \in 1..Len(phrases) : Contains(lowered, phrases[i])})

\* the verdict of analyze_constraints on one constraint
ConstraintMet(lowered, constraint) ==
    IF Contains(Lower(constraint), Chars_concessive)
    THEN Hits(lowered, concessives) >= 3
    ELSE IF Contains(Lower(constraint), Chars_softeners)
    THEN Hits(lowered, softeners) >= 2
    ELSE IF Contains(Lower(constraint), Chars_redirecting)
    THEN Hits(lowered, redirect) >= 1
    ELSE IF Contains(Lower(constraint), Chars_formal_usted)
    THEN Contains(lowered, Chars_usted) \/ Contains(lowered, Chars_su)
    ELSE IF Contains(constraint, Chars_avoid_calques)
    THEN ~Contains(lowered, Chars_aplicar_para)
    ELSE FALSE

\* analyze_constraints that takes a constraint of no category as met
RECURSIVE analyze_constraints_lenient(_, _)
analyze_constraints_lenient(response, constraints) ==
    IF constraints = <<>> THEN [raised |-> "", results |-> <<>>]
    ELSE LET n == Len(constraints)
             before == analyze_constraints_lenient(response,
                                                   SubSeq(constraints, 1, n - 1))
             known == \E c \in {Chars_concessive, Chars_softeners,
                                Chars_redirecting, Chars_formal_usted} :
                          Contains(Lower(constraints[n]), c)
         IN [before EXCEPT
               !.results = DictSet(@, constraints[n],
                                   IF known
                                      \/ Contains(constraints[n],
                                                  Chars_avoid_calques)
                                   THEN ConstraintMet(Lower(response),
                                                      constraints[n])
                                   ELSE TRUE)]

\* analyze_constraints: the dictionary constraint -> verdict, filled in the
\* order of the list; no statement of the function can raise on a text
RECURSIVE analyze_constraints(_, _)
analyze_constraints(response, constraints) ==
    IF constraints = <<>> THEN [raised |-> "", results |-> <<>>]
    ELSE LET n == Len(constraints)
             before == analyze_constraints(response,
                                           SubSeq(constraints, 1, n - 1))
         IN [before EXCEPT
               !.results = DictSet(@, constraints[n],
                                   ConstraintMet(Lower(response),
                                                 constraints[n]))]

----------------------------------------------------------------------------
(* extract_candidate_phrases *)

\* str.split(): the maximal runs of characters that are not whitespace
Whitespace == {" ", "\n", "\t"}

Split(text) ==
    LET n == Len(text)
        starts == {i \in 1..n : /\ text[i] \notin Whitespace
                                 /\ (i = 1 \/ text[i - 1] \in Whitespace)}
        End(i) == Min({j \in i..n : j = n \/ text[j + 1] \in Whitespace})
    IN [k \in 1..Cardinality(starts) |->
          LET i == CHOOSE i \in starts :
                      Cardinality({j \in starts : j <= i}) = k
          IN SubSeq(text, i, End(i))]

\* str.strip(chars): the characters of the set are removed from both ends
Strip(token, chars) ==
    LET kept == {i \in 1..Len(token) : token[i] \notin chars}
    IN IF kept = {} THEN <<>>
       ELSE SubSeq(token, Min(kept),
                   CHOOSE i \in kept : \A j \in kept : j <= i)

\* " ".join(tokens)
RECURSIVE Join(_)
Join(tokens) ==
    IF tokens = <<>> THEN <<>>
    ELSE IF Len(tokens) = 1 THEN tokens[1]
    ELSE tokens[1] \o <<" ">> \o Join(Tail(tokens))

\* the characters stripped from a token: . , ; : ! ? ( ) and the three
\* characters that the source file holds for the inverted marks
StripChars == {".", ",", ";", ":", "!", "?", "(", ")", "<not>", "<deg>",
               "<o/>"}

\* stopwords of extract_candidate_phrases
stopwords ==
    { <<"d", "e">>,
      <<"l", "a">>,
      <<"e", "l">>,
      <<"y">>,
      <<"e", "n">>,
      <<"a">>,
      <<"q", "u", "e">>,
      <<"p", "o", "r">>,
      <<"p", "a", "r", "a">> }

\* the words a text is typed from
\* "el"
Word_el == <<"e", "l">>
\* "gato"
Word_gato == <<"g", "a", "t", "o">>
\* "come"
Word_come == <<"c", "o", "m", "e">>
\* "Gato,"
Word_Gato_comma == <<"G", "a", "t", "o", ",">>
\* "?"
Word_question == <<"?">>
\* "pescado"
Word_pescado == <<"p", "e", "s", "c", "a", "d", "o">>
\* "duerme"
Word_duerme == <<"d", "u", "e", "r", "m", "e">>
Words == {Word_el, Word_gato, Word_come, Word_Gato_comma, Word_question}

\* the text of the extraction scenario
ScenarioWords == <<Word_el, Word_gato, Word_come, Word_pescado, Word_el,
                   Word_gato, Word_duerme>>

\* tokens = [token.strip(...).lower() for token in text.split()], without
\* the empty ones
Tokens(text) ==
    LET raw == Split(text)
        stripped == [i \in 1..Len(raw) |-> Lower(Strip(raw[i], StripChars))]
    IN SelectSeq(stripped, LAMBDA t : t # <<>>)

\* one loop of extract_candidate_phrases: the phrases of n tokens that start
\* at the positions 1..last are counted into counts, unless
\* set(phrase.split()) & stopwords  is not empty
RECURSIVE CountPhrases(_, _, _, _)
CountPhrases(tokens, n, last, counts) ==
    IF last <= 0 THEN counts
    ELSE LET before == CountPhrases(tokens, n, last - 1, counts)
             phrase == Join(SubSeq(tokens, last, last + n - 1))
         IN IF Range(Split(phrase)) \cap stopwords # {} THEN before
            ELSE DictSet(before, phrase, DictGet(before, phrase, 0) + 1)

\* sorted(items, key=count, reverse=True): a stable sort, which keeps items
\* of equal count in their order
RECURSIVE SortedByCount(_)
SortedByCount(items) ==
    IF items = <<>> THEN <<>>
    ELSE LET n == Len(items)
             rest == SortedByCount(SubSeq(items, 1, n - 1))
             k == Cardinality({i \in 1..Len(rest) :
                                  rest[i].value >= items[n].value})
         IN SubSeq(rest, 1, k) \o <<items[n]>> \o SubSeq(rest, k + 1, Len(rest))

\* a sort in ascending order that is then reversed: items of equal count
\* come out in the reverse of their order
RECURSIVE ReversedAscending(_)
ReversedAscending(items) ==
    IF items = <<>> THEN <<>>
    ELSE LET n == Len(items)
             rest == ReversedAscending(SubSeq(items, 1, n - 1))
             k == Cardinality({i \in 1..Len(rest) :
                                  rest[i].value > items[n].value})
         IN SubSeq(rest, 1, k) \o <<items[n]>> \o SubSeq(rest, k + 1, Len(rest))

\* extract_candidate_phrases with the reversed ascending sort
extract_candidate_phrases_reversed(text) ==
    LET tokens == Tokens(text)
        bigrams == CountPhrases(tokens, 2, Len(tokens) - 1, <<>>)
        counts == CountPhrases(tokens, 3, Len(tokens) - 2, bigrams)
        ranked == ReversedAscending(counts)
    IN [raised |-> "",
        phrases |-> [i \in 1..Len(ranked) |->
                        [phrase |-> ranked[i].key, count |-> ranked[i].value]]]

\* extract_candidate_phrases
extract_candidate_phrases(text) ==
    LET tokens == Tokens(text)
        bigrams == CountPhrases(tokens, 2, Len(tokens) - 1, <<>>)
        counts == CountPhrases(tokens, 3, Len(tokens) - 2, bigrams)
        ranked == SortedByCount(counts)
    IN [raised |-> "",
        phrases |-> [i \in 1..Len(ranked) |->
                        [phrase |-> ranked[i].key, count |-> ranked[i].value]]]

----------------------------------------------------------------------------
(* score_register_response *)

RUBRIC_DIMENSIONS == <<"Politeness strategies", "Hedging", "Directness",
                       "Idiomaticity", "Audience fit">>

\* REGISTER_MARKERS, two markers of every category
REGISTER_MARKERS(category) ==
    CASE category = "politeness" ->
        << <<"p", "o", "r", " ", "f", "a", "v", "o", "r">>,
           <<"l", "e", " ", "a", "g", "r", "a", "d", "e", "c", "e", "r",
             "<sqrt>", "<ne>", "a">> >>
      [] category = "hedging" ->
        << <<"q", "u", "i", "z", "<sqrt>", "<deg>">>,
           <<"t", "a", "l", " ", "v", "e", "z">> >>
      [] category = "direct" ->
        << <<"n", "e", "c", "e", "s", "i", "t", "o">>,
           <<"e", "x", "i", "j", "o">> >>
      [] category = "idiomatic" ->
        << <<"m", "e", " ", "d", "a", " ", "l", "a", " ", "i", "m", "p",
             "r", "e", "s", "i", "<sqrt>", "<ge>", "n">>,
           <<"e", "n", " ", "p", "o", "c", "a", "s", " ", "p", "a", "l",
             "a", "b", "r", "a", "s">> >>
      [] category = "academic" ->
        << <<"o", "b", "j", "e", "t", "i", "v", "o">>,
           <<"m", "e", "t", "o", "d", "o", "l", "o", "g", "<sqrt>", "<ne>", "a">> >>
      [] category = "whatsapp" ->
        << <<"j", "a", "j", "a">>,
           <<"o", "y", "e">> >>
      [] category = "pitch" ->
        << <<"p", "r", "o", "p", "u", "e", "s", "t", "a">>,
           <<"i", "m", "p", "a", "c", "t", "o">> >>

\* the phrases a response is typed from, each with a marker of one category,
\* and a phrase with none
\* "Por favor"
Phrase_por_favor == <<"P", "o", "r", " ", "f", "a", "v", "o", "r">>
\* "tal vez"
Phrase_tal_vez == <<"t", "a", "l", " ", "v", "e", "z">>
\* "Necesito"
Phrase_necesito == <<"N", "e", "c", "e", "s", "i", "t", "o">>
\* "en pocas palabras"
Phrase_en_pocas_palabras ==
    <<"e", "n", " ", "p", "o", "c", "a", "s", " ", "p", "a", "l", "a",
      "b", "r", "a", "s">>
\* "objetivo"
Phrase_objetivo == <<"o", "b", "j", "e", "t", "i", "v", "o">>
\* "jaja"
Phrase_jaja == <<"j", "a", "j", "a">>
\* "impacto"
Phrase_impacto == <<"i", "m", "p", "a", "c", "t", "o">>
\* "hola"
Phrase_hola == <<"h", "o", "l", "a">>

\* a filler of FillerWords one-letter words
FillerWords == 54
Phrase_filler ==
    [i \in 1..(2 * FillerWords - 1) |-> IF i % 2 = 1 THEN "x" ELSE " "]

\* the phrases in the order in which they are typed
Phrases == <<Phrase_por_favor, Phrase_tal_vez, Phrase_necesito,
             Phrase_en_pocas_palabras, Phrase_objetivo, Phrase_jaja,
             Phrase_impacto, Phrase_hola, Phrase_filler>>

REGISTER_STYLES == <<"Informal WhatsApp", "Workplace email",
                     "Academic abstract", "Polite complaint",
                     "Persuasive pitch">>

\* any(marker in lowered for marker in REGISTER_MARKERS[category])
AnyMarker(lowered, category) ==
    \E i \in 1..Len(REGISTER_MARKERS(category)) :
        Contains(lowered, REGISTER_MARKERS(category)[i])

\* the scores before the cap, with the bonus for the audience as a parameter
RawScores(text, style, audience_bonus) ==
    LET lowered == Lower(text)
        Add(condition, points) == IF condition THEN points ELSE 0
    IN [dim \in Range(RUBRIC_DIMENSIONS) |->
          CASE dim = "Politeness strategies" ->
                  2 + Add(AnyMarker(lowered, "politeness"), 2)
            [] dim = "Hedging" ->
                  2 + Add(AnyMarker(lowered, "hedging"), 2)
            [] dim = "Directness" ->
                  2 + Add(AnyMarker(lowered, "direct"), 1)
                    + Add(Len(Split(text)) > 55, 1)
            [] dim = "Idiomaticity" ->
                  2 + Add(AnyMarker(lowered, "idiomatic"), 2)
            [] dim = "Audience fit" ->
                  2 + Add(style = "Academic abstract"
                            /\ AnyMarker(lowered, "academic"), audience_bonus)
                    + Add(style = "Informal WhatsApp"
                            /\ AnyMarker(lowered, "whatsapp"), audience_bonus)
                    + Add(style = "Persuasive pitch"
                            /\ AnyMarker(lowered, "pitch"), audience_bonus)]

\* score_register_response with 2 points for the audience
score_register_response_plus_two(text, style) ==
    [raised |-> "",
     scores |-> [dim \in Range(RUBRIC_DIMENSIONS) |->
                    Min({RawScores(text, style, 2)[dim], 5})]]

\* score_register_response: {k: min(v, 5) for k, v in scores.items()}
score_register_response(text, style) ==
    [raised |-> "",
     scores |-> [dim \in Range(RUBRIC_DIMENSIONS) |->
                    Min({RawScores(text, style, 3)[dim], 5})]]

----------------------------------------------------------------------------
(* The error notebook with one tag kept selected, as a system of its own.  *)
(* Steps are counted from the current re-run: the code compares a next_due *)
(* only with the step and sets it to the step plus an interval, so taking  *)
(* the step away from the step and from every next_due after a re-run      *)
(* changes no later comparison and keeps the states finitely many          *)

\* the mistakes logged before the notebook is opened
NotebookLogs ==
    {l \in ListsUpTo({"dependen en", "la problema"}, MaxNotebookItems) :
        l # <<>>}

InitNotebook ==
    \E patterns \in NotebookLogs :
        LET L0 == [mistake_log |-> <<>>, mistake_notebook |-> <<>>,
                   error_review_queue |-> <<>>, mistakes |-> <<>>,
                   raised |-> ""]
            L2 == LogAll(L0, patterns, 0, 0)
        IN /\ nav = "Overview"
           /\ review_queue = <<>>
           /\ domain_exposure =
                 [i \in 1..Len(TOPIC_DIVERSITY_DOMAINS) |->
                     [domain |-> TOPIC_DIVERSITY_DOMAINS[i], count |-> 0]]
           /\ vocab_items = {}
           /\ review_step = 0
           /\ grammar_review_queue = <<>>
           /\ grammar_review_step = 0
           /\ error_review_queue = L2.error_review_queue
           /\ error_review_step = 0
           /\ mistake_log = L2.mistake_log
           /\ mistake_notebook = L2.mistake_notebook
           /\ mistakes = L2.mistakes
           /\ due_items = {}
           /\ due_grammar = {}
           /\ due_error = NoDue
           /\ topic_screen = NoTopicScreen
           /\ raised = ""
           /\ ev = NoEvent
           /\ unseen = {}
           /\ calls = [p \in Patterns |-> Count(patterns, p)]
           /\ fn = NoCall
           /\ fed_at = NeverFed
           /\ seen_due = {}

\* the queue with every next_due counted from the step; what is due at the
\* step stays due
CountedFrom(queue, step) ==
    [t \in DOMAIN queue |->
        [i \in 1..Len(queue[t]) |->
            [queue[t][i] EXCEPT !.next_due = Max2(@ - step, 0)]]]

\* one re-run of render_error_notebook with the tag selected: the step
\* advances, the due list is computed, its first item is presented, and a
\* click on a button that is rendered again updates that item
NotebookRerun(tag, clicked, success) ==
    LET step == error_review_step + 1
        due == DueIndices(error_review_queue[tag], step)
        idx == Min(due_error.indices)
        feedback == clicked /\ due # {} /\ Min(due) = idx
        queue == IF feedback
                 THEN update_error_review_item(error_review_queue, tag, idx,
                                               success, step)
                 ELSE error_review_queue
    IN /\ error_review_queue' = CountedFrom(queue, step)
       /\ error_review_step' = 0
       /\ Shows("Error Notebook", {}, {}, [tag |-> tag, indices |-> due], "")
       /\ ev' = [NoEvent EXCEPT
                    !.fed = IF feedback
                            THEN {[queue |-> tag, key |-> idx,
                                   success |-> success,
                                   was |-> error_review_queue[tag][idx]]}
                            ELSE {},
                    !.queried = {tag}]
       /\ UNCHANGED <<vocabVars, review_step, grammarVars,
                      grammar_review_step, mistake_log, mistake_notebook,
                      mistakes, unseen, calls, fn, fed_at, seen_due>>

\* the notebook is opened with a tag, or rendered again with the same tag
\* while no item is presented
NotebookRender(tag) ==
    /\ tag \in NotebookTags
    /\ \/ nav # "Error Notebook"
       \/ nav = "Error Notebook" /\ due_error.tag = tag
                                 /\ due_error.indices = {}
    /\ NotebookRerun(tag, FALSE, FALSE)

\* "Got it" / "Missed" of the presented item
NotebookReview(success) ==
    /\ nav = "Error Notebook"
    /\ due_error.indices # {}
    /\ success =>
         error_review_queue[due_error.tag][Min(due_error.indices)].streak
            < MaxNotebookStreak
    /\ NotebookRerun(due_error.tag, TRUE, success)

NextNotebook ==
    \/ \E tag \in {"preposition", "gender agreement"} : NotebookRender(tag)
    \/ \E success \in BOOLEAN : NotebookReview(success)

\* the view keeps being rendered, and a presented item receives its
\* feedback before anything else happens
SpecNotebook == InitNotebook /\ [][NextNotebook]_vars /\ WF_vars(NextNotebook)

----------------------------------------------------------------------------
(* normalize_spanish_answer and check_answer (utils/theme.py) *)

\* \w of the regular expression: letters, digits and the underscore
WordChars ==
    Range(LowerCase) \cup Range(UpperCase)
        \cup {"u:", "0", "1", "2", "3", "4", "5", "6", "7", "8", "9", "_"}

\* the characters that re.sub(r'[^\w\s...]', '', text) keeps
KeptChars ==
    WordChars \cup Whitespace \cup {"a'", "e'", "i'", "o'", "u'", "u:", "n~"}

\* the six replace() calls: the acute vowels and the u with diaeresis lose
\* their mark, the n with tilde keeps it
AccentFold ==
    [c \in {"a'", "e'", "i'", "o'", "u'", "u:"} |->
        CASE c = "a'" -> "a" [] c = "e'" -> "e" [] c = "i'" -> "i"
          [] c = "o'" -> "o" [] OTHER -> "u"]

\* normalize_spanish_answer
normalize_spanish_answer(text, strict_accents) ==
    LET lowered == Lower(Strip(text, Whitespace))
        joined == Join(Split(lowered))
        cleaned == SelectSeq(joined, LAMBDA c : c \in KeptChars)
    IN IF strict_accents THEN cleaned
       ELSE [i \in 1..Len(cleaned) |->
               IF cleaned[i] \in DOMAIN AccentFold
               THEN AccentFold[cleaned[i]] ELSE cleaned[i]]

\* check_answer, from the accepted answer number i on: each answer is
\* compared exactly and then folded before the next one is looked at; the
\* return after the loop reads correct_answers[0]
RECURSIVE CheckFrom(_, _, _, _)
CheckFrom(user_norm, user_fold, correct_answers, i) ==
    IF i > Len(correct_answers)
    THEN IF correct_answers = <<>>
         THEN [raised |-> "IndexError", result |-> "", matched |-> <<>>,
               feedback |-> <<>>]
         ELSE [raised |-> "", result |-> "incorrect", matched |-> <<>>,
               feedback |-> <<"Correct answer: ", correct_answers[1]>>]
    ELSE LET answer == correct_answers[i]
             ans_norm == normalize_spanish_answer(answer, TRUE)
             ans_fold == normalize_spanish_answer(answer, FALSE)
         IN IF user_norm = ans_norm
            THEN [raised |-> "", result |-> "correct",
                  matched |-> <<answer>>, feedback |-> <<>>]
            ELSE IF user_fold = ans_fold
            THEN [raised |-> "", result |-> "almost",
                  matched |-> <<answer>>,
                  feedback |-> <<"Watch the accents: ", answer>>]
            ELSE CheckFrom(user_norm, user_fold, correct_answers, i + 1)

\* check_answer; its strict_accents parameter is not read
check_answer(user_answer, correct_answers) ==
    CheckFrom(normalize_spanish_answer(user_answer, TRUE),
              normalize_spanish_answer(user_answer, FALSE),
              correct_answers, 1)

\* "si"
Answer_si == <<"s", "i">>

\* "sí"
Answer_si_accent == <<"s", "i'">>

\* " Sí!"
Answer_si_typed == <<" ", "S", "i'", "!">>

\* "ano"
Answer_ano == <<"a", "n", "o">>

\* "año"
Answer_anio == <<"a", "n~", "o">>

\* "por qué"
Answer_por_que == <<"p", "o", "r", " ", "q", "u", "e'">>

\* "Por  que?"
Answer_por_que_typed == <<"P", "o", "r", " ", " ", "q", "u", "e", "?">>

\* the answers typed by the user and the answers a question accepts
UserAnswers ==
    {Answer_si, Answer_si_accent, Answer_si_typed, Answer_ano, Answer_anio,
     Answer_por_que, Answer_por_que_typed, <<>>}
AcceptedAnswers == {Answer_si, Answer_si_accent, Answer_anio, Answer_por_que}

----------------------------------------------------------------------------
(* The text functions as a system: a call is set up with its arguments and *)
(* then made                                                                *)

\* the session in which the text functions are called: a fresh one
FreshSession ==
    /\ nav = "Overview"
    /\ review_queue = <<>>
    /\ review_step = 0
    /\ grammar_review_queue = <<>>
    /\ grammar_review_step = 0
    /\ error_review_queue = <<>>
    /\ error_review_step = 0
    /\ mistake_log = <<>>
    /\ mistake_notebook = <<>>
    /\ domain_exposure =
          [i \in 1..Len(TOPIC_DIVERSITY_DOMAINS) |->
              [domain |-> TOPIC_DIVERSITY_DOMAINS[i], count |-> 0]]
    /\ vocab_items = {}
    /\ mistakes = <<>>
    /\ due_items = {}
    /\ due_grammar = {}
    /\ due_error = NoDue
    /\ topic_screen = NoTopicScreen
    /\ raised = ""
    /\ ev = NoEvent
    /\ unseen = {}
    /\ calls = [p \in Patterns |-> 0]
    /\ fed_at = NeverFed
    /\ seen_due = {}

\* a call about to be made; typed is the list of words that a text argument
\* was typed from, if it was typed word by word
Calling(name, arguments, typed) ==
    fn = [name |-> name, arguments |-> arguments, typed |-> typed,
          returned |-> FALSE, result |-> <<>>]

\* the call returns (or raises); the session is not touched
Returns(name, outcome) ==
    /\ fn.name = name
    /\ ~fn.returned
    /\ fn' = [fn EXCEPT !.returned = TRUE, !.result = outcome]
    /\ raised' = outcome.raised
    /\ UNCHANGED <<nav, review_queue, review_step, grammar_review_queue,
                   grammar_review_step, error_review_queue,
                   error_review_step, mistake_log, mistake_notebook,
                   domain_exposure, vocab_items, mistakes, due_items,
                   due_grammar, due_error, topic_screen, ev, unseen, calls,
                   fed_at, seen_due>>

InitAnalyzeConstraints ==
    \E response \in Responses,
       constraints \in ListsUpTo(RecognisedConstraints
                                 \cup UnrecognisedConstraints,
                                 MaxConstraints) :
        Calling("analyze_constraints", <<response, constraints>>, <<>>)

CallAnalyzeConstraints ==
    /\ fn.name = "analyze_constraints"
    /\ Returns("analyze_constraints",
               analyze_constraints(fn.arguments[1], fn.arguments[2]))

InitExtractCandidatePhrases ==
    \E typed \in ListsUpTo(Words, MaxWords) \cup {ScenarioWords} :
        Calling("extract_candidate_phrases", <<Join(typed)>>, typed)

CallExtractCandidatePhrases ==
    /\ fn.name = "extract_candidate_phrases"
    /\ Returns("extract_candidate_phrases",
               extract_candidate_phrases(fn.arguments[1]))

InitScoreRegisterResponse ==
    \E chosen \in SUBSET Range(Phrases), style \in Range(REGISTER_STYLES) :
        LET typed == SelectSeq(Phrases, LAMBDA p : p \in chosen)
        IN Calling("score_register_response", <<Join(typed), style>>, typed)

CallScoreRegisterResponse ==
    /\ fn.name = "score_register_response"
    /\ Returns("score_register_response",
               score_register_response(fn.arguments[1], fn.arguments[2]))

InitCheckAnswer ==
    \E user_answer \in UserAnswers,
       correct_answers \in ListsUpTo(AcceptedAnswers, MaxAnswers) :
        Calling("check_answer", <<user_answer, correct_answers>>, <<>>)

CallCheckAnswer ==
    /\ fn.name = "check_answer"
    /\ Returns("check_answer", check_answer(fn.arguments[1], fn.arguments[2]))

InitFunctions ==
    /\ FreshSession
    /\ \/ InitAnalyzeConstraints
       \/ InitExtractCandidatePhrases
       \/ InitScoreRegisterResponse
       \/ InitCheckAnswer

NextFunctions ==
    \/ CallAnalyzeConstraints
    \/ CallExtractCandidatePhrases
    \/ CallScoreRegisterResponse
    \/ CallCheckAnswer

SpecFunctions == InitFunctions /\ [][NextFunctions]_vars

----------------------------------------------------------------------------
(* Properties *)

----------------------------------------------------------------------------
(* C1: pass feedback on an item of any queue raises its streak by exactly  *)
(* 1 and sets its next_due to the step of its queue at that moment plus 2  *)
(* to the power of the new streak.                                          *)
PassAdvances ==
    [][\A f \in ev'.fed :
          f.success =>
            /\ Item(f.queue, f.key)'.streak = Item(f.queue, f.key).streak + 1
            /\ Item(f.queue, f.key)'.next_due =
                  StepOf(f.queue)' + 2 ^ (Item(f.queue, f.key)'.streak)]_vars

\* an item went from streak 2 to streak 3 and is due 8 steps later
PassAdvancesWitness ==
    \E f \in ev.fed :
        /\ f.success
        /\ Item(f.queue, f.key).streak = 3
        /\ Item(f.queue, f.key).next_due = StepOf(f.queue) + 8

----------------------------------------------------------------------------
(* C2: fail feedback on an item of any queue sets its streak to 0 and its  *)
(* next_due to the step of its queue at that moment plus 1, whatever the   *)
(* streak and next_due were before.                                         *)
FailResets ==
    [][\A f \in ev'.fed :
          ~f.success =>
            /\ Item(f.queue, f.key)'.streak = 0
            /\ Item(f.queue, f.key)'.next_due = StepOf(f.queue)' + 1]_vars

\* an item that had a streak of 2 or more has just been failed
FailResetsWitness ==
    \E f \in ev.fed :
        /\ ~f.success
        /\ f.was.streak >= 2
        /\ Item(f.queue, f.key).streak = 0
        /\ Item(f.queue, f.key).next_due = StepOf(f.queue) + 1

----------------------------------------------------------------------------
\* next_due of an item at the moment the due list of its queue is computed
\* in a re-run: items are created before that moment and fed after it
NextDueAtQuery(queue, key) ==
    IF key \in KeysOf(queue) THEN Item(queue, key).next_due
    ELSE Item(queue, key)'.next_due

(* C3, as claimed: a due query returns exactly the items whose next_due is *)
(* at most the step the queue had before the query.                         *)
DueAgainstStepBefore ==
    [][\A q \in ev'.queried :
          DueOf(q)' = {k \in KeysOf(q)' : NextDueAtQuery(q, k) <= StepOf(q)}]_vars

(* C3, as amended: a due query returns exactly the items whose next_due is *)
(* at most the step of the queue after the query has incremented it (the   *)
(* step before the query plus 1).                                           *)
DueAgainstStepAfter ==
    [][\A q \in ev'.queried :
          DueOf(q)' = {k \in KeysOf(q)' : NextDueAtQuery(q, k) <= StepOf(q) + 1}]_vars

\* a query has just returned an item whose next_due is the incremented step
DueAgainstStepAfterWitness ==
    /\ ev.fed = {}
    /\ \E q \in ev.queried : \E k \in DueOf(q) :
          /\ Item(q, k).next_due = StepOf(q)
          /\ Item(q, k).streak > 0

----------------------------------------------------------------------------
(* C4: a due query raises the step of the queried queue by exactly 1 and   *)
(* nothing else changes a step, so the step of a queue counts the queries  *)
(* made on that queue.                                                      *)
StepCountsOwnQueries ==
    [][\A q \in Queues :
          StepOf(q)' = StepOf(q) + (IF q \in ev'.queried THEN 1 ELSE 0)]_vars

----------------------------------------------------------------------------
(* C5: a newly created review item is in the due list of the next due      *)
(* query on its queue, whatever the step of the queue at creation.          *)
NewItemDueAtNextQuery ==
    [][\A x \in ev'.first : x.key \in DueOf(x.queue)']_vars

\* an error item created at a step above 0 by an earlier re-run has just
\* been returned by the first due query of its tag
NewItemDueAtNextQueryWitness ==
    \E x \in ev.first :
        /\ x \notin ev.created
        /\ x.queue \notin {"vocab", "grammar"}
        /\ Item(x.queue, x.key).next_due > 0
        /\ x.key \in DueOf(x.queue)

----------------------------------------------------------------------------
(* C6, as claimed: every review item is created with streak 0 and with     *)
(* next_due equal to the step its queue has at the moment of creation.      *)
CreatedAtCurrentStep ==
    [][\A x \in ev'.created :
          /\ Item(x.queue, x.key)'.streak = 0
          /\ Item(x.queue, x.key)'.next_due = StepOf(x.queue)]_vars

(* C6, as amended: every review item is created with streak 0; an error    *)
(* item is created with next_due equal to the error step at that moment, a *)
(* vocabulary or grammar item with next_due 0, which is at most the step of *)
(* its queue.                                                               *)
CreatedDueImmediately ==
    [][\A x \in ev'.created :
          /\ Item(x.queue, x.key)'.streak = 0
          /\ Item(x.queue, x.key)'.next_due =
                IF x.queue \in {"vocab", "grammar"} THEN 0 ELSE StepOf(x.queue)
          /\ Item(x.queue, x.key)'.next_due <= StepOf(x.queue)]_vars

\* a grammar item has just been created while the grammar step is above 0
CreatedDueImmediatelyWitness ==
    \E x \in ev.created :
        /\ x.queue = "grammar"
        /\ grammar_review_step > 0
        /\ Item(x.queue, x.key).streak = 0
        /\ Item(x.queue, x.key).next_due = 0

----------------------------------------------------------------------------
(* C7: every pass feedback in a run of consecutive passes that starts at   *)
(* streak 0 leaves the item with a next_due strictly greater than the one  *)
(* it had after the previous pass (before the first pass: the one it had   *)
(* at streak 0), whatever due queries happen in between.                    *)
PassMovesDueForward ==
    [][\A f \in ev'.fed :
          f.success =>
            Item(f.queue, f.key)'.next_due > Item(f.queue, f.key).next_due]_vars

\* the third pass in a row has just moved next_due forward
PassMovesDueForwardWitness ==
    \E f \in ev.fed :
        /\ f.success
        /\ f.was.streak = 2
        /\ Item(f.queue, f.key).next_due > f.was.next_due

----------------------------------------------------------------------------
(* C8: a due query advances only the step of the queried queue; the step   *)
(* of every other queue, the queues of the other error tags included,      *)
(* is unchanged.                                                            *)
QueryLeavesOtherSteps ==
    [][\A q \in Queues : q \notin ev'.queried => StepOf(q)' = StepOf(q)]_vars

----------------------------------------------------------------------------
(* C9: no queue holds two review items with the same key.  The vocabulary  *)
(* and grammar queues are dictionaries keyed by term and by id; the key of *)
(* an item of an error-tag queue is its pattern.                            *)
UniqueKeys ==
    \A tag \in DOMAIN error_review_queue :
        \A i, j \in 1..Len(error_review_queue[tag]) :
            i # j => error_review_queue[tag][i].pattern #
                     error_review_queue[tag][j].pattern

----------------------------------------------------------------------------
(* C10: an item is never removed from its queue, and its streak and        *)
(* next_due change only in a re-run that applies pass/fail feedback to     *)
(* this very item.                                                          *)
OnlyFeedbackChangesItem ==
    [][\A q \in Queues : \A k \in KeysOf(q) :
          /\ k \in KeysOf(q)'
          /\ \/ /\ Item(q, k)'.streak = Item(q, k).streak
                /\ Item(q, k)'.next_due = Item(q, k).next_due
             \/ \E f \in ev'.fed : f.queue = q /\ f.key = k]_vars

\* feedback has just been applied to one item while another item of the
\* same queue keeps a streak above 0
OnlyFeedbackChangesItemWitness ==
    \E f \in ev.fed : \E k \in KeysOf(f.queue) :
        /\ k # f.key
        /\ Item(f.queue, k).streak > 0

----------------------------------------------------------------------------
(* C11: the count of a pattern in the aggregate log equals the number of   *)
(* log_mistake calls made with it so far, and a pattern that was never      *)
(* logged is not in the log.                                                *)
CountEqualsCalls ==
    \A p \in Patterns :
        IF calls[p] = 0 THEN p \notin DOMAIN mistake_log
        ELSE p \in DOMAIN mistake_log /\ mistake_log[p] = calls[p]

\* one pattern has been logged once, another twice, a third never
CountEqualsCallsWitness ==
    \E p, q, r \in Patterns :
        /\ calls[p] = 1 /\ mistake_log[p] = 1
        /\ calls[q] = 2 /\ mistake_log[q] = 2
        /\ calls[r] = 0 /\ r \notin DOMAIN mistake_log

----------------------------------------------------------------------------
\* the review items of an error tag, none for a tag without a queue
ErrorItems(queue, tag) == IF tag \in DOMAIN queue THEN queue[tag] ELSE <<>>

(* C12: each log_mistake call adds exactly one review item, with streak 0  *)
(* and the pattern logged, at the end of the queue of the tag that the     *)
(* pattern-to-tag table gives for the pattern ("general" for a pattern not *)
(* in the table), and no item to any other queue: in every re-run the      *)
(* items added to a tag queue are those of the calls made with a pattern   *)
(* of that tag, in call order, and a re-run that saves no vocabulary and   *)
(* adds no grammar drill leaves the other queues as they are.               *)
LogAddsOneItem ==
    [][/\ \A tag \in {ERROR_TAGS(p) : p \in Patterns} :
            LET old == ErrorItems(error_review_queue, tag)
                new == ErrorItems(error_review_queue, tag)'
                logged == SelectSeq(ev'.logged, LAMBDA p : ERROR_TAGS(p) = tag)
            IN /\ Len(new) = Len(old) + Len(logged)
               /\ \A i \in 1..Len(logged) :
                     /\ new[Len(old) + i].pattern = logged[i]
                     /\ new[Len(old) + i].streak = 0
       /\ ev'.saved = <<>> => DOMAIN review_queue' = DOMAIN review_queue
       /\ Range(ev'.logged) \cap Range(GRAMMAR_MICRODRILLS) = {}
             => DOMAIN grammar_review_queue' = DOMAIN grammar_review_queue]_vars

\* "dependen en" has just been logged: the last item of the "preposition"
\* queue has this pattern and streak 0, while a pattern outside the table
\* was logged before and sits in the "general" queue
LogAddsOneItemWitness ==
    /\ "dependen en" \in Range(ev.logged)
    /\ "preposition" \in DOMAIN error_review_queue
    /\ LET queue == error_review_queue["preposition"]
       IN /\ queue[Len(queue)].pattern = "dependen en"
          /\ queue[Len(queue)].streak = 0
    /\ "general" \in DOMAIN error_review_queue
    /\ "general" \notin {ERROR_TAGS(p) : p \in Range(ev.logged)}

----------------------------------------------------------------------------
(* C13: one evaluation of a text ("Evaluate output" of the growth studio,  *)
(* "Check sentence" of the mistake catcher) logs a mistake exactly once    *)
(* for each pattern of COMMON_MISTAKES that occurs as a substring of the   *)
(* lower-cased text, in the order of the list, and for no other pattern.   *)
LogsEachOccurringPattern ==
    [][ev'.evaluated # "" =>
          ev'.logged =
             SelectSeq(COMMON_MISTAKES,
                       LAMBDA p : Contains(Lower(ev'.text), PatternChars(p)))]_vars

----------------------------------------------------------------------------
\* the patterns that an evaluation of a text reports, text by text
ReportedFor(evaluated, text) ==
    IF text = <<>> THEN {}
    ELSE IF Len(text) = 23 /\ LowerChar(text[1]) = "d" THEN {"dependen en"}
    ELSE IF Len(text) = 23 THEN {"dependen en", "la problema"}
    ELSE IF evaluated = "Check sentence" THEN {"ser listo"} ELSE {}

(* C14: the patterns that an evaluation reports depend on the text and on  *)
(* the handler alone, so a second run on the same text reports the same    *)
(* set whatever the log, the notebook and the queues hold; each run raises *)
(* the count of every reported pattern by 1 and no other count.             *)
SameTextSameMatches ==
    [][ev'.evaluated # "" =>
          /\ Range(ev'.logged) = ReportedFor(ev'.evaluated, ev'.text)
          /\ \A p \in Patterns :
                (IF p \in DOMAIN mistake_log' THEN mistake_log'[p] ELSE 0)
                = (IF p \in DOMAIN mistake_log THEN mistake_log[p] ELSE 0)
                  + (IF p \in ReportedFor(ev'.evaluated, ev'.text)
                     THEN 1 ELSE 0)]_vars

\* the text "Dependen en Dependen en" has just been evaluated for the
\* second time ("la problema" of the other text with "dependen en" was never
\* logged), with another mistake in the log
SameTextSameMatchesWitness ==
    /\ ev.evaluated # ""
    /\ ev.logged = <<"dependen en">>
    /\ mistake_log["dependen en"] = 2
    /\ "la problema" \notin DOMAIN mistake_log
    /\ Len(mistake_notebook) = 3

----------------------------------------------------------------------------
(* C15: when a database write is refused inside log_mistake or             *)
(* add_review_items, every update of the session state of that operation   *)
(* is applied all the same: the count, the notebook entry and the review   *)
(* item of every mistake logged, the queue entry and the exposure of every *)
(* item of the batch saved, the items after the refused write included.    *)
RefusedWriteKeepsUpdates ==
    [][raised' = "OperationalError" =>
          /\ \A p \in Patterns :
                /\ Count(ev'.logged, p) > 0 => p \in DOMAIN mistake_log'
                /\ p \in DOMAIN mistake_log' =>
                      mistake_log'[p] =
                         (IF p \in DOMAIN mistake_log THEN mistake_log[p] ELSE 0)
                         + Count(ev'.logged, p)
          /\ Len(mistake_notebook') = Len(mistake_notebook) + Len(ev'.logged)
          /\ Cardinality(ev'.created) >= Len(ev'.logged)
          /\ \A i \in 1..Len(ev'.saved) :
                ev'.saved[i].term \in DOMAIN review_queue'
          /\ ExposureSum(domain_exposure') =
                ExposureSum(domain_exposure)
                + Cardinality({i \in 1..Len(ev'.saved) :
                                  ev'.saved[i].term \notin DOMAIN review_queue})
      ]_vars

----------------------------------------------------------------------------
(* C17: at the start of a session the vocabulary queue has a review item   *)
(* for every record of the table vocab_items, which the earlier sessions   *)
(* wrote with save_vocab_item.                                              *)
SavedTermsAreQueuedAtStart ==
    nav = "Overview" => vocab_items \subseteq DOMAIN review_queue

----------------------------------------------------------------------------
\* a direct call names a key that its queue does not have: a term or a drill
\* that is not a key, a tag without a queue, an index without an element
CalledWithMissingKey(called) ==
    CASE called[1] = "update_review_item" ->
            called[2] \notin DOMAIN review_queue
      [] called[1] = "update_grammar_review_item" ->
            called[2] \notin DOMAIN grammar_review_queue
      [] called[1] = "update_error_review_item" ->
            \/ called[2] \notin DOMAIN error_review_queue
            \/ called[3] >= Len(error_review_queue[called[2]])
            \/ called[3] < -Len(error_review_queue[called[2]])

(* C16: feedback for a key that is not in the vocabulary or grammar queue, *)
(* or for an error tag or an index that is not in the error queue, raises  *)
(* an error and leaves every queue, streak, next_due and step unchanged.   *)
(* An index counts as Python counts it: -1 is the last element of a list.  *)
MissingKeyRaises ==
    [][(ev'.called # <<>> /\ CalledWithMissingKey(ev'.called)) =>
          /\ raised' \in {"KeyError", "IndexError"}
          /\ UNCHANGED <<review_queue, grammar_review_queue,
                         error_review_queue, review_step, grammar_review_step,
                         error_review_step>>]_vars

\* a call with an index past the end of a non-empty tag queue has just
\* raised, after a call with a key that exists had changed an item
MissingKeyRaisesWitness ==
    /\ raised = "IndexError"
    /\ ev.called[1] = "update_error_review_item"
    /\ Len(error_review_queue[ev.called[2]]) = 1
    /\ ev.called[3] = 1
    /\ \E t \in DOMAIN review_queue : review_queue[t].streak > 0

----------------------------------------------------------------------------
(* C18: every item with a domain that is passed to add_review_items raises *)
(* the exposure counter of its domain by exactly 1, whether or not its     *)
(* term is in the vocabulary queue already.                                 *)
EverySaveCountsExposure ==
    [][\A i \in 1..Len(domain_exposure') :
          domain_exposure'[i].count =
             (IF i <= Len(domain_exposure) THEN domain_exposure[i].count ELSE 0)
             + Cardinality({k \in 1..Len(ev'.saved) :
                              ev'.saved[k].domain = domain_exposure'[i].domain})
       \/ ev'.saved = <<>>]_vars

----------------------------------------------------------------------------
\* the sum of a list of fractions, as a fraction
RECURSIVE FractionSum(_)
FractionSum(shares) ==
    IF shares = <<>> THEN [num |-> 0, den |-> 1]
    ELSE LET rest == FractionSum(Tail(shares))
         IN [num |-> Head(shares).num * rest.den + rest.num * Head(shares).den,
             den |-> Head(shares).den * rest.den]

(* C19: the coverage shares that the topic engine shows are count/total    *)
(* for every domain of the exposure map, total being the sum of all        *)
(* counters: they sum to 1 when an exposure has been recorded, and all are *)
(* 0, with no division by zero, when none has.                              *)
SharesSumToOne ==
    topic_screen.shares # <<>> =>
        LET shares == topic_screen.shares
            total == ExposureSum(domain_exposure)
        IN /\ Len(shares) = Len(domain_exposure)
           /\ \A i \in 1..Len(shares) :
                 /\ shares[i].domain = domain_exposure[i].domain
                 /\ shares[i].den # 0
                 /\ total > 0 =>
                       shares[i].num * total
                          = domain_exposure[i].count * shares[i].den
                 /\ total = 0 => shares[i].num = 0
           /\ total > 0 => FractionSum(shares).num = FractionSum(shares).den

\* shares are on screen with two domains above 0
SharesSumToOneWitness ==
    /\ topic_screen.shares # <<>>
    /\ \E i, j \in 1..Len(topic_screen.shares) :
          /\ i # j
          /\ topic_screen.shares[i].num > 0
          /\ topic_screen.shares[j].num > 0

----------------------------------------------------------------------------
\* the first domain, in the order of the exposure map, with a given count
FirstDomainWith(exposure, count) ==
    exposure[Min({i \in 1..Len(exposure) : exposure[i].count = count})].domain

(* C20: the suggested mix of the topic engine has as familiar a domain     *)
(* with the largest exposure count and as stretch one with the smallest;   *)
(* among tied domains it is the first in the insertion order of the map,   *)
(* so with all counts equal both are the first domain.                      *)
PairIsFirstMaxFirstMin ==
    [][nav' = "Topic Diversity" =>
          LET counts == {domain_exposure[i].count :
                            i \in 1..Len(domain_exposure)}
              largest == CHOOSE c \in counts : \A d \in counts : d <= c
              smallest == CHOOSE c \in counts : \A d \in counts : c <= d
          IN /\ topic_screen'.familiar =
                   FirstDomainWith(domain_exposure, largest)
             /\ topic_screen'.stretch =
                   FirstDomainWith(domain_exposure, smallest)]_vars

\* the mix on screen was picked with the two topic domains tied at the
\* smallest count and a third domain above them
PairIsFirstMaxFirstMinWitness ==
    /\ nav = "Topic Diversity"
    /\ topic_screen.shares # <<>>
    /\ Len(domain_exposure) = 3
    /\ domain_exposure[1].count = 0
    /\ domain_exposure[2].count = 0
    /\ topic_screen.familiar = GrowthDomain
    /\ topic_screen.stretch = TOPIC_DIVERSITY_DOMAINS[1]

----------------------------------------------------------------------------
(* C21: analyze_constraints never raises, its result has an entry for      *)
(* every constraint passed in, and the entry of a constraint whose text    *)
(* selects no category is false, whatever the response, the empty one      *)
(* included.                                                                *)
UnknownConstraintFails ==
    (fn.name = "analyze_constraints" /\ fn.returned) =>
        /\ fn.result.raised = ""
        /\ \A i \in 1..Len(fn.arguments[2]) :
              \E j \in 1..Len(fn.result.results) :
                  /\ fn.result.results[j].key = fn.arguments[2][i]
                  /\ fn.arguments[2][i] \in UnrecognisedConstraints
                        => fn.result.results[j].value = FALSE

\* a call with a constraint of no category, which fails, and a recognised
\* one, which the response meets
UnknownConstraintFailsWitness ==
    /\ fn.name = "analyze_constraints" /\ fn.returned
    /\ fn.arguments[1] # <<>>
    /\ \E j, k \in 1..Len(fn.result.results) :
          /\ fn.result.results[j].key = Constraint_calques_lower
          /\ fn.result.results[j].value = FALSE
          /\ fn.result.results[k].key \in RecognisedConstraints
          /\ fn.result.results[k].value = TRUE

----------------------------------------------------------------------------
\* the token that a typed word gives: "Gato," gives "gato", "?" gives none
NormalWord(word) ==
    IF word = Word_Gato_comma THEN Word_gato
    ELSE IF word = Word_question THEN <<>>
    ELSE word

\* the tokens of the typed words
TypedTokens(typed) ==
    SelectSeq([i \in 1..Len(typed) |-> NormalWord(typed[i])],
              LAMBDA t : t # <<>>)

\* the bigrams and trigrams of a token list without a stopword, each as the
\* pair of its length and its position
Survivors(tokens) ==
    {g \in {2, 3} \X (1..Len(tokens)) :
        /\ g[2] + g[1] - 1 <= Len(tokens)
        /\ \A i \in g[2]..(g[2] + g[1] - 1) : tokens[i] \notin stopwords}

Gram(tokens, g) == SubSeq(tokens, g[2], g[2] + g[1] - 1)

\* the first occurrence of a phrase among the survivors, bigrams first
FirstOccurrence(tokens, phrase) ==
    CHOOSE g \in Survivors(tokens) :
        /\ Join(Gram(tokens, g)) = phrase
        /\ \A h \in Survivors(tokens) :
              Join(Gram(tokens, h)) = phrase =>
                  \/ g[1] < h[1]
                  \/ g[1] = h[1] /\ g[2] <= h[2]

Before(g, h) == g[1] < h[1] \/ (g[1] = h[1] /\ g[2] < h[2])

(* C22: extract_candidate_phrases returns one entry for every bigram and   *)
(* trigram of the lower-cased, stripped tokens that has no stopword, with  *)
(* the number of its occurrences as count and no other entry; counts never *)
(* increase along the list and entries of equal count are in the order of  *)
(* their first occurrence, bigrams before trigrams.  For "el gato come     *)
(* pescado el gato duerme" the bigrams are "gato come", "come pescado" and *)
(* "gato duerme", in this order, each with count 1.                         *)
PhrasesCountedAndRanked ==
    (fn.name = "extract_candidate_phrases" /\ fn.returned) =>
        LET tokens == TypedTokens(fn.typed)
            phrases == fn.result.phrases
        IN /\ fn.result.raised = ""
           /\ \A g \in Survivors(tokens) :
                 \E i \in 1..Len(phrases) :
                     phrases[i].phrase = Join(Gram(tokens, g))
           /\ \A i \in 1..Len(phrases) :
                 /\ \E g \in Survivors(tokens) :
                       phrases[i].phrase = Join(Gram(tokens, g))
                 /\ phrases[i].count =
                       Cardinality({g \in Survivors(tokens) :
                                       Join(Gram(tokens, g))
                                           = phrases[i].phrase})
           /\ \A i, j \in 1..Len(phrases) :
                 i < j =>
                     /\ phrases[i].phrase # phrases[j].phrase
                     /\ phrases[i].count >= phrases[j].count
                     /\ phrases[i].count = phrases[j].count =>
                           Before(FirstOccurrence(tokens, phrases[i].phrase),
                                  FirstOccurrence(tokens, phrases[j].phrase))
           /\ fn.typed = ScenarioWords =>
                 SelectSeq(phrases, LAMBDA e : Len(Split(e.phrase)) = 2)
                    = << [phrase |-> Join(<<Word_gato, Word_come>>),
                          count |-> 1],
                         [phrase |-> Join(<<Word_come, Word_pescado>>),
                          count |-> 1],
                         [phrase |-> Join(<<Word_gato, Word_duerme>>),
                          count |-> 1] >>

\* a text in which a later phrase occurs more often than an earlier one, so
\* the sort moves it to the front, and two phrases tie
PhrasesCountedAndRankedWitness ==
    /\ fn.name = "extract_candidate_phrases" /\ fn.returned
    /\ Len(fn.result.phrases) >= 3
    /\ fn.result.phrases[1].count = 2
    /\ fn.result.phrases[2].count = 1
    /\ fn.result.phrases[3].count = 1
    /\ fn.result.phrases[1].phrase
          # Join(SubSeq(TypedTokens(fn.typed), 1, 2))
    /\ Word_Gato_comma \in Range(fn.typed)

----------------------------------------------------------------------------
(* C23: an item whose last feedback was given at step s of its queue and   *)
(* left it with streak k is in the due list of a query of its queue if and *)
(* only if the step at that query has reached s + 2^k: it is in none that  *)
(* is computed below s + 2^k and in every one computed from s + 2^k on,    *)
(* until its next feedback (one step after a fail, two after a first pass, *)
(* four after a second pass in a row).                                      *)
DueFromFeedbackStep ==
    [][\A q \in ev'.queried :
          \A x \in DOMAIN fed_at :
              x[1] = q =>
                  (x[2] \in DueOf(q)'
                      <=> StepOf(q)' >= fed_at[x].step + 2 ^ fed_at[x].streak)]_vars

\* a query has just returned an item passed twice in a row, exactly four
\* steps after that feedback
DueFromFeedbackStepWitness ==
    /\ "vocab" \in ev.queried
    /\ \E x \in DOMAIN fed_at :
          /\ x[1] = "vocab"
          /\ fed_at[x].streak = 2
          /\ review_step = fed_at[x].step + 4
          /\ x[2] \in due_items

----------------------------------------------------------------------------
(* C24: in every session state the settings page runs to its end: the JSON *)
(* and CSV export of the vocabulary queue, of the mistake notebook and of  *)
(* the transcripts raise nothing, also when the vocabulary queue holds     *)
(* items.                                                                   *)
ExportCompletes == nav = "Settings" => raised = ""

----------------------------------------------------------------------------
\* the category whose marker a typed phrase holds ("" for none)
PhraseCategory(phrase) ==
    CASE phrase = Phrase_por_favor -> "politeness"
      [] phrase = Phrase_tal_vez -> "hedging"
      [] phrase = Phrase_necesito -> "direct"
      [] phrase = Phrase_en_pocas_palabras -> "idiomatic"
      [] phrase = Phrase_objetivo -> "academic"
      [] phrase = Phrase_jaja -> "whatsapp"
      [] phrase = Phrase_impacto -> "pitch"
      [] OTHER -> ""

\* the number of words of a typed phrase
PhraseWords(phrase) ==
    CASE phrase = Phrase_por_favor -> 2
      [] phrase = Phrase_tal_vez -> 2
      [] phrase = Phrase_en_pocas_palabras -> 3
      [] phrase = Phrase_filler -> FillerWords
      [] OTHER -> 1

RECURSIVE TypedWords(_)
TypedWords(typed) ==
    IF typed = <<>> THEN 0
    ELSE PhraseWords(Head(typed)) + TypedWords(Tail(typed))

\* the conditions of a rubric dimension that a typed response satisfies,
\* each with the points the code gives for it
Satisfied(typed, style, dim) ==
    LET Has(category) == \E i \in 1..Len(typed) :
                            PhraseCategory(typed[i]) = category
    IN CASE dim = "Politeness strategies" ->
              {c \in {<<"politeness", 2>>} : Has(c[1])}
         [] dim = "Hedging" -> {c \in {<<"hedging", 2>>} : Has(c[1])}
         [] dim = "Directness" ->
              {c \in {<<"direct", 1>>} : Has(c[1])}
                 \cup {c \in {<<"long", 1>>} : TypedWords(typed) > 55}
         [] dim = "Idiomaticity" -> {c \in {<<"idiomatic", 2>>} : Has(c[1])}
         [] dim = "Audience fit" ->
              {c \in {<<"academic", 3>>} :
                  style = "Academic abstract" /\ Has(c[1])}
                 \cup {c \in {<<"whatsapp", 3>>} :
                         style = "Informal WhatsApp" /\ Has(c[1])}
                 \cup {c \in {<<"pitch", 3>>} :
                         style = "Persuasive pitch" /\ Has(c[1])}

RECURSIVE SumPoints(_)
SumPoints(conditions) ==
    IF conditions = {} THEN 0
    ELSE LET c == CHOOSE x \in conditions : TRUE
         IN c[2] + SumPoints(conditions \ {c})

----------------------------------------------------------------------------
\* the sum of the values of a function with a finite domain
RECURSIVE SumOf(_)
SumOf(f) ==
    IF DOMAIN f = {} THEN 0
    ELSE LET x == CHOOSE x \in DOMAIN f : TRUE
         IN f[x] + SumOf([y \in DOMAIN f \ {x} |-> f[y]])

(* C26: in every state the counts of the mistake log add up to the number  *)
(* of entries of the mistake notebook, which is also the number of review  *)
(* items in all error-tag queues together.                                  *)
LedgerTotalsAgree ==
    /\ SumOf(mistake_log) = Len(mistake_notebook)
    /\ Len(mistake_notebook)
          = SumOf([tag \in DOMAIN error_review_queue |->
                      Len(error_review_queue[tag])])

\* three mistakes logged: one pattern twice, items in two tag queues
LedgerTotalsAgreeWitness ==
    /\ Len(mistake_notebook) = 3
    /\ \E p \in DOMAIN mistake_log : mistake_log[p] = 2
    /\ Cardinality(DOMAIN error_review_queue) = 2
    /\ \E tag \in DOMAIN error_review_queue : Len(error_review_queue[tag]) = 2

----------------------------------------------------------------------------
(* C27: an item that has been in a due list of its queue is in every due   *)
(* list computed for that queue afterwards, until pass or fail feedback is *)
(* given on it: further due queries, additions to the queue and feedback   *)
(* on other items never make it not due.                                    *)
DueUntilFeedback ==
    [][\A q \in ev'.queried :
          \A x \in seen_due : x[1] = q => x[2] \in DueOf(q)']_vars

\* an item that was in an earlier due list of its queue and has had no
\* feedback is in the due list again, after feedback on another item of
\* the queue
DueUntilFeedbackWitness ==
    \E q \in ev.queried :
        \E x, y \in {q} \X KeysOf(q) :
            /\ x \in seen_due
            /\ x[2] \in DueOf(q)
            /\ [queue |-> q, key |-> x[2]] \notin ev.first
            /\ x \notin DOMAIN fed_at
            /\ y \in DOMAIN fed_at
            /\ y[2] \notin DueOf(q)


\* C28: in the error notebook with one tag kept selected, every item of the
\* tag's queue that is in the due list is eventually the item presented for
\* review, whatever feedback the items presented before it receive
EveryDueItemPresented ==
    \A tag \in {"preposition", "gender agreement"} :
        \A idx \in 1..MaxNotebookItems :
            (nav = "Error Notebook" /\ due_error.tag = tag
                                    /\ idx \in due_error.indices)
            ~> (nav = "Error Notebook" /\ due_error.tag = tag
                                        /\ due_error.indices # {}
                                        /\ Min(due_error.indices) = idx)


\* C29: whenever the topic engine shows its suggested mix, the familiar and
\* the stretch domain of pick_domain_pair are both domains of the fixed
\* topic list that the selector offers
PairWithinTopicList ==
    (nav = "Topic Diversity" /\ topic_screen.familiar # "") =>
        /\ topic_screen.familiar \in TopicDomains
        /\ topic_screen.stretch \in TopicDomains


\* C30: check_answer returns 'correct' exactly when the answer, normalised
\* with accents kept, equals the accent-kept normalisation of some accepted
\* answer, wherever that answer stands in the list; 'almost' exactly when
\* none matches so and one matches after accent folding; and 'incorrect'
\* in every other case
CheckAnswerByBestMatch ==
    (fn.name = "check_answer" /\ fn.returned) =>
        LET user_answer == fn.arguments[1]
            accepted == Range(fn.arguments[2])
            exact == \E a \in accepted :
                        normalize_spanish_answer(user_answer, TRUE)
                          = normalize_spanish_answer(a, TRUE)
            folded == \E a \in accepted :
                         normalize_spanish_answer(user_answer, FALSE)
                           = normalize_spanish_answer(a, FALSE)
        IN /\ fn.result.raised = ""
           /\ fn.result.result =
                 IF exact THEN "correct"
                 ELSE IF folded THEN "almost" ELSE "incorrect"

====
